---- MODULE Spec2Model ----
(***************************************************************************)
(* A model of the core of the crop rope: the chunk iterator and the chunk  *)
(* leaf (src/src/rope/rope_chunk.rs), the inode operations                 *)
(* (src/src/tree/node_internal.rs) and the tree (src/src/tree/tree.rs).    *)
(***************************************************************************)
EXTENDS Integers, Sequences, FiniteSets, TLC

VARIABLES
    cInput,     \* the &str a RopeChunkIter was created on
    cStr,       \* RopeChunkIter.str: the part of the input not yet yielded
    cChunks,    \* the chunks next() has yielded so far, in order
    cDone,      \* next() has returned None
    fanout,     \* the const generic N / FANOUT of the tree
    heap,       \* the Arc<Node> allocations: the node and the strong count of each
    bLeaves,    \* the leaves handed to Tree::from_leaves
    bRoot,      \* Tree.root of the tree from_leaves returned (an Arc), or Null
    bPc,        \* "input", "built", or "panic" when from_leaves panicked
    tRoot,      \* Tree.root of the tree being mutated (an Arc)
    tClone,     \* Tree.root of a clone of that tree, or Null
    tSnap,      \* the summary and leaves of the clone when it was taken
    tOps,       \* the number of operations applied so far
    tLast,      \* the last operation applied
    tPc,        \* "run", or "panic" when an operation panicked
    sText,      \* the text a rope was built from
    sRoot,      \* Tree.root of that rope (an Arc)
    sSlice,     \* the TreeSlice last taken, of the tree or of a slice
    sNest,      \* how many slices were taken one of the other
    sAbs,       \* the range of sText the slices taken so far select
    sProbe,     \* a byte index of the slice and the line offsets asked for it
    sPc,        \* "tree", "sliced", or "panic" when an assertion failed
    kLeft,      \* the left chunk slice handed to RopeChunk::balance_slices
    kRight,     \* the right chunk slice handed to it
    kOut,       \* what balance_slices returned
    kPc,        \* "input", or "balanced" once balance_slices returned
    uInput,     \* the nodes (Arcs) handed to an iterator or held by two inodes
    uSelf,      \* the inode `self` of Inode::balance or Inode::drain
    uOther,     \* the inode `other` of Inode::balance
    uIter,      \* the iterator in flight: a ChildSegmenter or a Drain
    uOut,       \* the items the iterator has yielded so far, in order
    uLens,      \* the lengths read before each step: len() of the iterator
                \* before each next(), len() of the two inodes before balance
    uPc         \* "new", "iter", "pair", "done", "balanced", or "panic"

chunkVars == <<cInput, cStr, cChunks, cDone>>
buildVars == <<bLeaves, bRoot, bPc>>

treeVars == <<tRoot, tClone, tSnap, tOps, tLast, tPc>>

sliceVars == <<sText, sRoot, sSlice, sNest, sAbs, sProbe, sPc>>

leafVars == <<kLeft, kRight, kOut, kPc>>

unitVars == <<uInput, uSelf, uOther, uIter, uOut, uLens, uPc>>

vars == <<cInput, cStr, cChunks, cDone, fanout, heap, bLeaves, bRoot, bPc,
          tRoot, tClone, tSnap, tOps, tLast, tPc,
          sText, sRoot, sSlice, sNest, sAbs, sProbe, sPc,
          kLeft, kRight, kOut, kPc,
          uInput, uSelf, uOther, uIter, uOut, uLens, uPc>>

----------------------------------------------------------------------------
(* Bounds *)

\* The longest input string of the chunk iterator, in characters.
MaxChars == 6

\* The largest fanout N of the trees built.
MaxFanout == 6

\* The largest number of leaves handed to Tree::from_leaves.
MaxLeaves == 21

\* The largest number of leaves of the tree the inode operations start from.
MaxInitLeaves == 6

\* The number of inode operations applied to a tree.
MaxOps == 2

\* The longest text a sliced rope is built from, in bytes.
MaxText == 18

\* How many slices are taken one of the other.
MaxNest == 2

----------------------------------------------------------------------------
(* Bytes and strings.  A string is a sequence of bytes; a byte is one of   *)
(* an ASCII letter, '\r', '\n', the leading byte of a 2-byte or of a       *)
(* 4-byte code point, or a UTF-8 continuation byte.                        *)

CR == "CR"
LF == "LF"
Cont == "C"

Chars == { <<"a">>, <<CR>>, <<LF>>, <<"L2", Cont>>, <<"L4", Cont, Cont, Cont>> }

RECURSIVE StringsOf(_)
StringsOf(n) ==
    IF n = 0 THEN { <<>> }
    ELSE LET shorter == StringsOf(n - 1)
         IN  shorter \cup { s \o c : s \in { t \in shorter : TRUE }, c \in Chars }

SubStr(s, from, to) == \* s[from..to) with 0-based byte offsets
    SubSeq(s, from + 1, to)

RECURSIVE Concat(_)
Concat(ss) == IF ss = <<>> THEN <<>> ELSE Head(ss) \o Concat(Tail(ss))

\* str::is_char_boundary
is_char_boundary(s, index) ==
    \/ index = 0
    \/ index = Len(s)
    \/ (index < Len(s) /\ s[index + 1] # Cont)

----------------------------------------------------------------------------
(* rope_chunk.rs *)

ROPE_CHUNK_MAX_BYTES == 4

ROPE_CHUNK_MIN_BYTES == ROPE_CHUNK_MAX_BYTES \div 2

\* A scan that never advances: the cut stays where max_bytes puts it.
NextBoundaryNoScan(s, bytes) == bytes

\* The loop `while !self.str.is_char_boundary(bytes) { bytes += 1 }`.
RECURSIVE NextBoundary(_, _)
NextBoundary(s, bytes) ==
    IF is_char_boundary(s, bytes) THEN bytes ELSE NextBoundary(s, bytes + 1)

\* The CR/LF test of RopeChunkIter::next.
SplitsCrlfGuard(s, bytes) ==
    /\ s[bytes] = CR
    /\ Len(s) > bytes + 1
    /\ s[bytes + 1] = LF

\* The number of bytes RopeChunkIter::next takes when at least
\* ROPE_CHUNK_MAX_BYTES remain.
ChunkCut(s) ==
    LET bytes == NextBoundary(s, ROPE_CHUNK_MAX_BYTES)
    IN  IF SplitsCrlfGuard(s, bytes) THEN bytes + 1 ELSE bytes

\* RopeChunkIter::next
RopeChunkIterNext ==
    /\ ~cDone
    /\ IF Len(cStr) = 0
       THEN /\ cDone' = TRUE
            /\ UNCHANGED <<cStr, cChunks>>
       ELSE IF Len(cStr) >= ROPE_CHUNK_MAX_BYTES
       THEN LET bytes == ChunkCut(cStr)
            IN  /\ cChunks' = Append(cChunks, SubStr(cStr, 0, bytes))
                /\ cStr' = SubStr(cStr, bytes, Len(cStr))
                /\ cDone' = FALSE
       ELSE /\ cChunks' = Append(cChunks, cStr)
            /\ cStr' = <<>>
            /\ cDone' = FALSE
    /\ UNCHANGED cInput
    /\ UNCHANGED <<fanout, heap, bLeaves, bRoot, bPc>>
    /\ UNCHANGED treeVars
    /\ UNCHANGED sliceVars
    /\ UNCHANGED leafVars
    /\ UNCHANGED unitVars

----------------------------------------------------------------------------
(* Summaries (rope_chunk.rs) *)

\* ChunkSummary::default
DefaultSummary == [bytes |-> 0, line_breaks |-> 0]

\* AddAssign for ChunkSummary
SummaryAdd(a, b) ==
    [bytes |-> a.bytes + b.bytes, line_breaks |-> a.line_breaks + b.line_breaks]

\* A subtraction that leaves the line breaks where they were.
SummarySubBytes(a, b) ==
    [bytes |-> a.bytes - b.bytes, line_breaks |-> a.line_breaks]

\* SubAssign for ChunkSummary
SummarySub(a, b) ==
    [bytes |-> a.bytes - b.bytes, line_breaks |-> a.line_breaks - b.line_breaks]

RECURSIVE count_breaks(_)
count_breaks(text) ==
    IF text = <<>> THEN 0
    ELSE (IF Head(text) = LF THEN 1 ELSE 0) + count_breaks(Tail(text))

\* A summary that counts no line break.
ChunkSummarizeBytes(text) == [bytes |-> Len(text), line_breaks |-> 0]

\* RopeChunk::summarize
ChunkSummarize(text) == [bytes |-> Len(text), line_breaks |-> count_breaks(text)]

----------------------------------------------------------------------------
(* rope_chunk.rs: the chunk as a leaf *)

\* RopeChunk::is_big_enough
is_big_enough(summary) == summary.bytes >= ROPE_CHUNK_MIN_BYTES

RECURSIVE PrevBoundary(_, _)
PrevBoundary(s, bytes) ==
    IF is_char_boundary(s, bytes) THEN bytes ELSE PrevBoundary(s, bytes - 1)

\* utils::balance_left_with_right: bytes move from the start of `right` to
\* `left` until `left` holds min_bytes, the split going forward to the next
\* code-point boundary and one byte further when it sits inside a CRLF.
balance_left_with_right(left, right) ==
    LET missing == ROPE_CHUNK_MIN_BYTES - Len(left)
        Split(onChar) == IF /\ onChar < Len(right)
                            /\ right[onChar] = CR
                            /\ right[onChar + 1] = LF
                         THEN onChar + 1 ELSE onChar
        Chunks(newLeft, newRight) ==
            [left  |-> [text |-> newLeft, summary |-> ChunkSummarize(newLeft)],
             right |-> [text |-> newRight, summary |-> ChunkSummarize(newRight)]]
        Move(split) == Chunks(left \o SubStr(right, 0, split),
                              SubStr(right, split, Len(right)))
    IN  Move(Split(NextBoundary(right, missing)))

\* utils::balance_right_with_left: bytes move from the end of `left` to the
\* front of `right` until `right` holds min_bytes, the split going backward to
\* the previous code-point boundary and one byte further when it sits inside
\* a CRLF.
balance_right_with_left(left, right) ==
    LET missing == ROPE_CHUNK_MIN_BYTES - Len(right)
        Split(onChar) == IF /\ onChar > 0
                            /\ left[onChar] = CR
                            /\ left[onChar + 1] = LF
                         THEN onChar - 1 ELSE onChar
        Chunks(newLeft, newRight) ==
            [left  |-> [text |-> newLeft, summary |-> ChunkSummarize(newLeft)],
             right |-> [text |-> newRight, summary |-> ChunkSummarize(newRight)]]
        Move(split) == Chunks(SubStr(left, 0, split),
                              SubStr(left, split, Len(left)) \o right)
    IN  Move(Split(PrevBoundary(left, Len(left) - missing)))

NoChunk == [text |-> <<>>, summary |-> DefaultSummary]

\* A merge that keeps the summary of the left slice.
balance_slicesKeepSummary(left, left_summary, right, right_summary) ==
    IF Len(left) >= ROPE_CHUNK_MIN_BYTES /\ Len(right) >= ROPE_CHUNK_MIN_BYTES
    THEN [left  |-> [text |-> left, summary |-> left_summary],
          some  |-> TRUE,
          right |-> [text |-> right, summary |-> right_summary]]
    ELSE IF Len(left) + Len(right) <= ROPE_CHUNK_MAX_BYTES
    THEN [left  |-> [text |-> left \o right, summary |-> left_summary],
          some  |-> FALSE,
          right |-> NoChunk]
    ELSE LET Both(b) == [left |-> b.left, some |-> TRUE, right |-> b.right]
         IN  IF Len(left) < ROPE_CHUNK_MIN_BYTES
             THEN Both(balance_left_with_right(left, right))
             ELSE Both(balance_right_with_left(left, right))

\* A balance that is content when one of the slices is big enough.
balance_slicesEither(left, left_summary, right, right_summary) ==
    IF Len(left) >= ROPE_CHUNK_MIN_BYTES \/ Len(right) >= ROPE_CHUNK_MIN_BYTES
    THEN [left  |-> [text |-> left, summary |-> left_summary],
          some  |-> TRUE,
          right |-> [text |-> right, summary |-> right_summary]]
    ELSE [left  |-> [text |-> left \o right,
                     summary |-> SummaryAdd(left_summary, right_summary)],
          some  |-> FALSE,
          right |-> NoChunk]

\* A balance that joins two slices only when they leave room in the chunk.
balance_slicesRoom(left, left_summary, right, right_summary) ==
    IF Len(left) >= ROPE_CHUNK_MIN_BYTES /\ Len(right) >= ROPE_CHUNK_MIN_BYTES
    THEN [left  |-> [text |-> left, summary |-> left_summary],
          some  |-> TRUE,
          right |-> [text |-> right, summary |-> right_summary]]
    ELSE IF Len(left) + Len(right) < ROPE_CHUNK_MAX_BYTES
    THEN [left  |-> [text |-> left \o right,
                     summary |-> SummaryAdd(left_summary, right_summary)],
          some  |-> FALSE,
          right |-> NoChunk]
    ELSE LET Both(b) == [left |-> b.left, some |-> TRUE, right |-> b.right]
         IN  IF Len(left) < ROPE_CHUNK_MIN_BYTES
             THEN Both(balance_left_with_right(left, right))
             ELSE Both(balance_right_with_left(left, right))

\* RopeChunk::balance_slices: `some` tells whether a second chunk is returned.
balance_slices(left, left_summary, right, right_summary) ==
    IF Len(left) >= ROPE_CHUNK_MIN_BYTES /\ Len(right) >= ROPE_CHUNK_MIN_BYTES
    THEN [left  |-> [text |-> left, summary |-> left_summary],
          some  |-> TRUE,
          right |-> [text |-> right, summary |-> right_summary]]
    ELSE IF Len(left) + Len(right) <= ROPE_CHUNK_MAX_BYTES
    THEN [left  |-> [text |-> left \o right,
                     summary |-> SummaryAdd(left_summary, right_summary)],
          some  |-> FALSE,
          right |-> NoChunk]
    ELSE LET Both(b) == [left |-> b.left, some |-> TRUE, right |-> b.right]
         IN  IF Len(left) < ROPE_CHUNK_MIN_BYTES
             THEN Both(balance_left_with_right(left, right))
             ELSE Both(balance_right_with_left(left, right))

----------------------------------------------------------------------------
(* Nodes behind Arc.  heap.node[id] is the Node an Arc points to and        *)
(* heap.rc[id] its strong count; an Arc is the index id.  A node is a       *)
(* record with every field of both variants: a leaf has depth 0, one leaf   *)
(* and no children, an inode has no value.                                  *)

Null == 0

\* `panicked` records that a panic (a failed unwrap or debug assertion) was
\* raised while the operation that threads the heap was running.
EmptyHeap == [node |-> <<>>, rc |-> <<>>, panicked |-> FALSE]

Panic(h) == [h EXCEPT !.panicked = TRUE]

\* Lnode::from(value)
LeafNode(text) ==
    [kind |-> "Leaf", value |-> text, summary |-> ChunkSummarize(text),
     children |-> <<>>, depth |-> 0, leaf_count |-> 1]

\* Lnode::new(value, summary) / Lnode::from((value, summary))
LeafNodeWith(text, summary) ==
    [kind |-> "Leaf", value |-> text, summary |-> summary,
     children |-> <<>>, depth |-> 0, leaf_count |-> 1]

\* Inode::empty
empty ==
    [kind |-> "Internal", value |-> <<>>, summary |-> DefaultSummary,
     children |-> <<>>, depth |-> 1, leaf_count |-> 0]

\* Arc::new
ArcNew(h, node) ==
    [h  |-> [h EXCEPT !.node = Append(@, node), !.rc = Append(@, 1)],
     id |-> Len(h.node) + 1]

\* Arc::clone
ArcClone(h, id) == [h EXCEPT !.rc[id] = @ + 1]

RECURSIVE ArcCloneAll(_, _)
ArcCloneAll(h, ids) ==
    IF ids = <<>> THEN h ELSE ArcCloneAll(ArcClone(h, Head(ids)), Tail(ids))

\* Drop for Arc: the count goes down, and the node with its children (Drop
\* for Children) is dropped with the last Arc.
RECURSIVE ArcDrop(_, _)
RECURSIVE ArcDropAll(_, _)
ArcDrop(h, id) ==
    LET h1 == [h EXCEPT !.rc[id] = @ - 1]
    IN  IF h1.rc[id] = 0 THEN ArcDropAll(h1, h1.node[id].children) ELSE h1
ArcDropAll(h, ids) ==
    IF ids = <<>> THEN h ELSE ArcDropAll(ArcDrop(h, Head(ids)), Tail(ids))

\* An Arc::make_mut that hands out the shared node itself.
ArcMakeMutInPlace(h, id) == [h |-> h, id |-> id]

\* Arc::make_mut: the node itself when this Arc is the only one, else a clone
\* of the node (#[derive(Clone)] for Inode and Children::clone: every child
\* Arc is cloned) behind a new Arc, this Arc giving up its count.
ArcMakeMut(h, id) ==
    IF h.rc[id] = 1 THEN [h |-> h, id |-> id]
    ELSE LET h1 == ArcCloneAll(h, h.node[id].children)
             h2 == [h1 EXCEPT !.rc[id] = @ - 1]
         IN  ArcNew(h2, h.node[id])

\* Arc::get_mut(..).is_some()
ArcIsUnique(h, id) == h.rc[id] = 1

----------------------------------------------------------------------------
(* node_internal.rs: Inode.  `self` is an inode record; h is read for the  *)
(* children's cached summary, depth and leaf count.                        *)

max_children == fanout

min_children == fanout \div 2

len(self) == Len(self.children)

is_empty(self) == len(self) = 0

is_full(self) == len(self) = max_children

is_underfilled(self) == len(self) < min_children

\* A push that puts the child in front of its siblings.
pushFront(h, self, child) ==
    [self EXCEPT !.depth = IF is_empty(self) THEN h.node[child].depth + 1 ELSE @,
                 !.leaf_count = @ + h.node[child].leaf_count,
                 !.summary = SummaryAdd(@, h.node[child].summary),
                 !.children = <<child>> \o @]

\* A push that forgets the child's summary.
pushNoSummary(h, self, child) ==
    [self EXCEPT !.depth = IF is_empty(self) THEN h.node[child].depth + 1 ELSE @,
                 !.leaf_count = @ + h.node[child].leaf_count,
                 !.children = Append(@, child)]

\* Inode::push
push(h, self, child) ==
    [self EXCEPT !.depth = IF is_empty(self) THEN h.node[child].depth + 1 ELSE @,
                 !.leaf_count = @ + h.node[child].leaf_count,
                 !.summary = SummaryAdd(@, h.node[child].summary),
                 !.children = Append(@, child)]

RECURSIVE pushAll(_, _, _)
pushAll(h, self, ids) ==
    IF ids = <<>> THEN self ELSE pushAll(h, push(h, self, Head(ids)), Tail(ids))

\* Inode::from_children
from_children(h, ids) == pushAll(h, empty, ids)

\* A segmenter that always fills an inode to max_children.
SegmenterTakeGreedy(remaining) ==
    IF remaining > max_children THEN max_children ELSE remaining

\* A segmenter that leaves min_children nodes whenever more than
\* max_children remain.
SegmenterTakeRest(remaining) ==
    IF remaining > max_children THEN remaining - min_children ELSE remaining

\* A segmenter that fills every inode to min_children only.
SegmenterTakeHalf(remaining) ==
    IF remaining >= 2 * min_children THEN min_children ELSE remaining

\* ChildSegmenter::next: how many of the `remaining` nodes the next inode takes.
SegmenterTake(remaining) ==
    IF remaining > max_children
    THEN IF remaining - max_children >= min_children
         THEN max_children
         ELSE remaining - min_children
    ELSE remaining

\* The inodes a ChildSegmenter yields for the nodes `ids`, in order.
RECURSIVE Segments(_, _)
Segments(h, ids) ==
    IF Len(ids) = 0 THEN <<>>
    ELSE LET take == SegmenterTake(Len(ids))
         IN  <<from_children(h, SubSeq(ids, 1, take))>>
                 \o Segments(h, SubSeq(ids, take + 1, Len(ids)))

\* .map(Node::Internal).map(Arc::new).collect()
RECURSIVE ArcNewAll(_, _, _)
ArcNewAll(h, inodes, out) ==
    IF inodes = <<>> THEN [h |-> h, ids |-> out]
    ELSE LET new == ArcNew(h, Head(inodes))
         IN  ArcNewAll(new.h, Tail(inodes), Append(out, new.id))

\* One pass of the segmenter over `ids`, each inode put behind a new Arc.
SegmentPass(h, ids, out) == ArcNewAll(h, Segments(h, ids), out)

\* The loop `while nodes.len() > Self::max_children()` of from_nodes.
RECURSIVE SegmentLoop(_, _)
SegmentLoop(h, ids) ==
    IF Len(ids) > max_children
    THEN LET pass == SegmentPass(h, ids, <<>>) IN SegmentLoop(pass.h, pass.ids)
    ELSE [h |-> h, ids |-> ids]

\* Inode::from_nodes
from_nodes(h, ids) ==
    IF Len(ids) <= max_children
    THEN [h |-> h, inode |-> from_children(h, ids)]
    ELSE LET first == SegmentPass(h, ids, <<>>)
             top   == SegmentLoop(first.h, first.ids)
         IN  [h |-> top.h, inode |-> from_children(top.h, top.ids)]

\* iter.map(Leaf::from_value).map(Arc::new)
RECURSIVE NewLeaves(_, _, _)
NewLeaves(h, leaves, out) ==
    IF leaves = <<>> THEN [h |-> h, ids |-> out]
    ELSE LET new == ArcNew(h, LeafNode(Head(leaves)))
         IN  NewLeaves(new.h, Tail(leaves), Append(out, new.id))

\* Inode::from_leaves
from_leaves(h, leaves) ==
    LET nodes == NewLeaves(h, leaves, <<>>) IN from_nodes(nodes.h, nodes.ids)

----------------------------------------------------------------------------
(* Node: what a Node delegates to its variant *)

\* Node::is_underfilled
NodeIsUnderfilled(h, id) ==
    IF h.node[id].kind = "Leaf"
    THEN ~is_big_enough(h.node[id].summary)
    ELSE is_underfilled(h.node[id])

\* Node::is_empty
NodeIsEmpty(h, id) ==
    IF h.node[id].kind = "Leaf"
    THEN h.node[id].summary.bytes = 0
    ELSE is_empty(h.node[id])

----------------------------------------------------------------------------
(* node_internal.rs: the operations of an inode *)

None == [some |-> FALSE, inode |-> empty]

Some(inode) == [some |-> TRUE, inode |-> inode]

InsertAt(seq, offset, x) == \* Children::insert
    SubSeq(seq, 1, offset) \o <<x>> \o SubSeq(seq, offset + 1, Len(seq))

RemoveAt(seq, idx) == \* Children::remove, idx counted from 0
    SubSeq(seq, 1, idx) \o SubSeq(seq, idx + 2, Len(seq))

\* An insert that forgets the child's leaf count.
insertNoLeafCount(h, self, child_offset, child) ==
    [self EXCEPT !.depth = IF is_empty(self) THEN h.node[child].depth + 1 ELSE @,
                 !.summary = SummaryAdd(@, h.node[child].summary),
                 !.children = InsertAt(@, child_offset, child)]

\* Inode::insert
insert(h, self, child_offset, child) ==
    [self EXCEPT !.depth = IF is_empty(self) THEN h.node[child].depth + 1 ELSE @,
                 !.leaf_count = @ + h.node[child].leaf_count,
                 !.summary = SummaryAdd(@, h.node[child].summary),
                 !.children = InsertAt(@, child_offset, child)]

RECURSIVE insertAll(_, _, _, _)
insertAll(h, self, child_offset, ids) ==
    IF ids = <<>> THEN self
    ELSE insertAll(h, insert(h, self, child_offset, Head(ids)),
                   child_offset + 1, Tail(ids))

\* Inode::remove: the inode without the child at child_idx (counted from 0).
remove(h, self, child_idx) ==
    LET child == self.children[child_idx + 1]
    IN  [self EXCEPT !.leaf_count = @ - h.node[child].leaf_count,
                     !.summary = SummarySub(@, h.node[child].summary),
                     !.children = RemoveAt(@, child_idx)]

\* A swap that leaves the old child beside the new one.
swapBeside(h, self, child_idx, new_child) ==
    insert(h, self, child_idx, new_child)

\* Inode::swap
swap(h, self, child_idx, new_child) ==
    LET to_swap == self.children[child_idx + 1]
    IN  [self EXCEPT
            !.summary = SummaryAdd(SummarySub(@, h.node[to_swap].summary),
                                   h.node[new_child].summary),
            !.leaf_count = (@ - h.node[to_swap].leaf_count)
                               + h.node[new_child].leaf_count,
            !.children[child_idx + 1] = new_child]

RECURSIVE SubtractAll(_, _, _)
SubtractAll(h, self, ids) ==
    IF ids = <<>> THEN self
    ELSE SubtractAll(h,
            [self EXCEPT !.summary = SummarySub(@, h.node[Head(ids)].summary),
                         !.leaf_count = @ - h.node[Head(ids)].leaf_count],
            Tail(ids))

\* Inode::drain(start..end) with every item of the iterator consumed and the
\* iterator dropped: the inode left and the children yielded.
drain(h, self, start, end) ==
    LET items == SubSeq(self.children, start + 1, end)
        less  == SubtractAll(h, self, items)
    IN  [self  |-> [less EXCEPT !.children = SubSeq(self.children, 1, start)
                                    \o SubSeq(self.children, end + 1, len(self))],
         items |-> items]

\* A with_child_mut that does not take the child's summary out first.
WithChildMutPreKeep(h, self, child_idx) == self

\* Inode::with_child_mut, before `fun` runs: the child's summary and leaf
\* count leave the inode's.
WithChildMutPre(h, self, child_idx) ==
    LET child == self.children[child_idx + 1]
    IN  [self EXCEPT !.summary = SummarySub(@, h.node[child].summary),
                     !.leaf_count = @ - h.node[child].leaf_count]

\* Inode::with_child_mut, after `fun` ran: the summary and leaf count of the
\* child, as `fun` left it behind the Arc now in its slot, are added back.
WithChildMutPost(h, self, child_idx, child) ==
    [self EXCEPT !.summary = SummaryAdd(@, h.node[child].summary),
                 !.leaf_count = @ + h.node[child].leaf_count,
                 !.children[child_idx + 1] = child]

\* A balance that moves one child too few to an underfilled `other`.
balanceMoveLess(h, self, other) ==
    IF ~is_underfilled(self) /\ ~is_underfilled(other)
    THEN [self |-> self, other |-> other]
    ELSE IF len(self) + len(other) <= max_children
    THEN LET d == drain(h, other, 0, len(other))
         IN  [self |-> pushAll(h, self, d.items), other |-> d.self]
    ELSE IF len(self) > len(other)
    THEN LET move_right == (min_children - len(other)) - 1
             d == drain(h, self, len(self) - move_right, len(self))
         IN  [self |-> d.self, other |-> insertAll(h, other, 0, d.items)]
    ELSE LET move_left == len(other) - min_children
             d == drain(h, other, 0, move_left)
         IN  [self |-> pushAll(h, self, d.items), other |-> d.self]

\* Inode::balance
balance(h, self, other) ==
    IF ~is_underfilled(self) /\ ~is_underfilled(other)
    THEN [self |-> self, other |-> other]
    ELSE IF len(self) + len(other) <= max_children
    THEN LET d == drain(h, other, 0, len(other))
         IN  [self |-> pushAll(h, self, d.items), other |-> d.self]
    ELSE IF len(self) > len(other)
    THEN LET move_right == min_children - len(other)
             d == drain(h, self, len(self) - move_right, len(self))
         IN  [self |-> d.self, other |-> insertAll(h, other, 0, d.items)]
    ELSE LET move_left == len(other) - min_children
             d == drain(h, other, 0, move_left)
         IN  [self |-> pushAll(h, self, d.items), other |-> d.self]

\* Lnode::balance: balance_slices on the two leaves, the second left empty
\* when the two were merged.
LeafBalance(left, right) ==
    LET Leaves2(b) == [self  |-> LeafNodeWith(b.left.text, b.left.summary),
                       other |-> LeafNodeWith(b.right.text, b.right.summary)]
    IN  Leaves2(balance_slices(left.value, left.summary,
                               right.value, right.summary))

\* Node::balance on the nodes behind two Arcs, each the only Arc to its node.
NodeBalance(h, left, right) ==
    LET Store(b) == [h EXCEPT !.node[left] = b.self, !.node[right] = b.other]
    IN  IF h.node[left].kind = "Leaf"
        THEN Store(LeafBalance(h.node[left], h.node[right]))
        ELSE Store(balance(h, h.node[left], h.node[right]))

\* An append that puts the node before the children of `self`.
AppendBelowFront(h, self, node) ==
    IF ~is_full(self)
    THEN [h |-> h, self |-> insert(h, self, 0, node), extra |-> None]
    ELSE [h |-> h, self |-> self, extra |-> Some(from_children(h, <<node>>))]

\* An append that puts every node in an inode of its own beside `self`.
AppendBelowAlone(h, self, node) ==
    [h |-> h, self |-> self, extra |-> Some(from_children(h, <<node>>))]

\* The second half of append_at_depth, where `node` is one level below
\* `self`: balance an underfilled node with the last child, then push it or
\* split `self`.
AppendBelow(h, self, node) ==
    LET under == NodeIsUnderfilled(h, node)
        last_idx == len(self) - 1
        pre  == WithChildMutPre(h, self, last_idx)
        last == ArcMakeMut(h, self.children[last_idx + 1])
        mine == ArcMakeMut(last.h, node)
        Balanced(hb) ==
            [h |-> hb, self |-> WithChildMutPost(hb, pre, last_idx, last.id),
             node |-> mine.id]
        PushOrSplit(b) ==
            IF under /\ NodeIsEmpty(b.h, b.node)
            THEN [h |-> ArcDrop(b.h, b.node), self |-> b.self, extra |-> None]
            ELSE IF ~is_full(b.self)
            THEN [h |-> b.h, self |-> push(b.h, b.self, b.node), extra |-> None]
            ELSE LET d == drain(b.h, b.self, min_children + 1, len(b.self))
                     other == push(b.h, from_children(b.h, d.items), b.node)
                 IN  [h |-> b.h, self |-> d.self, extra |-> Some(other)]
    IN  IF under
        THEN PushOrSplit(Balanced(NodeBalance(mine.h, last.id, mine.id)))
        ELSE PushOrSplit([h |-> h, self |-> self, node |-> node])

\* Inode::append_at_depth
RECURSIVE append_at_depth(_, _, _)
append_at_depth(h, self, node) ==
    IF self.depth > h.node[node].depth + 1
    THEN LET last_idx == len(self) - 1
             pre  == WithChildMutPre(h, self, last_idx)
             last == ArcMakeMut(h, self.children[last_idx + 1])
             Up(rec) ==
                 LET h1   == [rec.h EXCEPT !.node[last.id] = rec.self]
                     self1 == WithChildMutPost(h1, pre, last_idx, last.id)
                     Beside(new) == AppendBelow(new.h, self1, new.id)
                 IN  IF ~rec.extra.some
                     THEN [h |-> h1, self |-> self1, extra |-> None]
                     ELSE Beside(ArcNew(h1, rec.extra.inode))
         IN  Up(append_at_depth(last.h, last.h.node[last.id], node))
    ELSE AppendBelow(h, self, node)

\* The second half of prepend_at_depth, where `node` is one level below
\* `self`.
PrependBelow(h, self, node) ==
    LET under == NodeIsUnderfilled(h, node)
        pre   == WithChildMutPre(h, self, 0)
        mine  == ArcMakeMut(h, node)
        first == ArcMakeMut(mine.h, self.children[1])
        Balanced(hb) ==
            [h |-> hb, self |-> WithChildMutPost(hb, pre, 0, first.id),
             node |-> mine.id]
        InsertOrSplit(b) ==
            IF under /\ NodeIsEmpty(b.h, b.self.children[1])
            THEN [h |-> ArcDrop(b.h, b.self.children[1]),
                  self |-> swap(b.h, b.self, 0, b.node), extra |-> None]
            ELSE IF ~is_full(b.self)
            THEN [h |-> b.h, self |-> insert(b.h, b.self, 0, b.node),
                  extra |-> None]
            ELSE LET d == drain(b.h, b.self, min_children, len(b.self))
                     new_self == from_children(b.h, d.items)
                     other == insert(b.h, d.self, 0, b.node)
                 IN  [h |-> b.h, self |-> new_self, extra |-> Some(other)]
    IN  IF under
        THEN InsertOrSplit(Balanced(NodeBalance(first.h, mine.id, first.id)))
        ELSE InsertOrSplit([h |-> h, self |-> self, node |-> node])

\* Inode::prepend_at_depth
RECURSIVE prepend_at_depth(_, _, _)
prepend_at_depth(h, self, node) ==
    IF self.depth > h.node[node].depth + 1
    THEN LET pre   == WithChildMutPre(h, self, 0)
             first == ArcMakeMut(h, self.children[1])
             Up(rec) ==
                 LET h1    == [rec.h EXCEPT !.node[first.id] = rec.self]
                     self1 == WithChildMutPost(h1, pre, 0, first.id)
                     Beside(new) == PrependBelow(new.h, self1, new.id)
                 IN  IF ~rec.extra.some
                     THEN [h |-> h1, self |-> self1, extra |-> None]
                     ELSE Beside(ArcNew(h1, rec.extra.inode))
         IN  Up(prepend_at_depth(first.h, first.h.node[first.id], node))
    ELSE PrependBelow(h, self, node)

\* Inode::insert_at_depth.  Inserting the overflow inode into a full `self`
\* fails the debug assertion of insert.
insert_at_depth(h, self, child_offset, node) ==
    LET idx == IF child_offset > 0 THEN child_offset - 1 ELSE 0
        pre   == WithChildMutPre(h, self, idx)
        child == ArcMakeMut(h, self.children[idx + 1])
        Up(rec) ==
            LET h1    == [rec.h EXCEPT !.node[child.id] = rec.self]
                self1 == WithChildMutPost(h1, pre, idx, child.id)
            IN  IF ~rec.extra.some
                THEN [h |-> h1, self |-> self1]
                ELSE LET new == ArcNew(h1, rec.extra.inode)
                         h2  == IF is_full(self1) THEN Panic(new.h) ELSE new.h
                     IN  [h |-> h2, self |-> insert(h2, self1, child_offset, new.id)]
    IN  IF child_offset > 0
        THEN Up(append_at_depth(child.h, child.h.node[child.id], node))
        ELSE Up(prepend_at_depth(child.h, child.h.node[child.id], node))

\* The loop `while self.is_underfilled()` of insert_children: children are
\* pushed from `input`, then from `last`, until `self` is not underfilled.
RECURSIVE Refill(_, _, _, _)
Refill(h, self, input, last) ==
    IF ~is_underfilled(self) THEN [h |-> h, self |-> self, input |-> input, last |-> last]
    ELSE IF input # <<>>
    THEN Refill(h, push(h, self, Head(input)), Tail(input), last)
    ELSE IF last # <<>>
    THEN Refill(h, push(h, self, Head(last)), input, Tail(last))
    ELSE [h |-> Panic(h), self |-> self, input |-> input, last |-> last]

\* An insert_children that never moves children back from the end of `self`.
insert_childrenNoBack(h, self, child_offset, children) ==
    IF len(self) + Len(children) <= max_children
    THEN [h |-> h, self |-> insertAll(h, self, child_offset, children),
          extra |-> [some |-> FALSE, inodes |-> <<>>]]
    ELSE LET d == drain(h, self, child_offset, len(self))
             filled == Refill(h, d.self, children, d.items)
         IN  [h |-> filled.h, self |-> filled.self,
              extra |-> [some |-> TRUE,
                         inodes |-> Segments(h, filled.input \o filled.last)]]

\* Inode::insert_children: `extra.some` tells whether inodes are returned,
\* `extra.inodes` are the inodes the returned segmenter yields.
insert_children(h, self, child_offset, children) ==
    IF len(self) + Len(children) <= max_children
    THEN [h |-> h, self |-> insertAll(h, self, child_offset, children),
          extra |-> [some |-> FALSE, inodes |-> <<>>]]
    ELSE LET d == drain(h, self, child_offset, len(self))
             filled == Refill(h, d.self, children, d.items)
             rest == Len(filled.input) + Len(filled.last)
             back == IF rest >= min_children
                     THEN [self |-> filled.self, items |-> <<>>]
                     ELSE drain(h, filled.self,
                                len(filled.self) - (min_children - rest),
                                len(filled.self))
         IN  [h |-> filled.h, self |-> back.self,
              extra |-> [some |-> TRUE,
                         inodes |-> Segments(h, back.items \o filled.input
                                                    \o filled.last)]]

\* Inode::balance_child
balance_child(h, self, child_idx) ==
    IF len(self) <= 1 THEN [h |-> Panic(h), self |-> self]
    ELSE IF ~NodeIsUnderfilled(h, self.children[child_idx + 1])
    THEN [h |-> h, self |-> self]
    ELSE LET left_idx  == IF child_idx = 0 THEN 0 ELSE child_idx - 1
             right_idx == left_idx + 1
             left  == ArcMakeMut(h, self.children[left_idx + 1])
             right == ArcMakeMut(left.h, self.children[right_idx + 1])
             self1 == [self EXCEPT !.children[left_idx + 1] = left.id,
                                   !.children[right_idx + 1] = right.id]
             Balanced(hb) ==
                 IF NodeIsEmpty(hb, right.id)
                 THEN [h |-> ArcDrop(hb, right.id),
                       self |-> remove(hb, self1, right_idx)]
                 ELSE [h |-> hb, self |-> self1]
         IN  Balanced(NodeBalance(right.h, left.id, right.id))

\* A balance of the first child that leaves the children as they are.
balance_first_child_with_secondSkip(h, self) == [h |-> h, self |-> self]

\* Inode::balance_first_child_with_second
balance_first_child_with_second(h, self) ==
    IF len(self) < 2 THEN [h |-> Panic(h), self |-> self]
    ELSE IF ~NodeIsUnderfilled(h, self.children[1]) THEN [h |-> h, self |-> self]
    ELSE IF ~ArcIsUnique(h, self.children[1]) THEN [h |-> Panic(h), self |-> self]
    ELSE
    LET first  == self.children[1]
        second == self.children[2]
        f == h.node[first]
        g == h.node[second]
    IN  IF f.kind = "Internal"
        THEN IF len(f) + len(g) <= max_children
             THEN LET h1 == ArcCloneAll(h, g.children)
                      h2 == [h1 EXCEPT !.node[first] = pushAll(h1, f, g.children)]
                  IN  [h |-> ArcDrop(h2, second),
                       self |-> [self EXCEPT !.children = RemoveAt(@, 1)]]
             ELSE LET to_first == min_children - len(f)
                      moved == SubSeq(g.children, 1, to_first)
                      keep_second == SubSeq(g.children, to_first + 1, len(g))
                      h1 == ArcCloneAll(h, moved)
                      h2 == [h1 EXCEPT !.node[first] = pushAll(h1, f, moved)]
                      h3 == ArcCloneAll(h2, keep_second)
                      new == ArcNew(h3, from_children(h3, keep_second))
                  IN  [h |-> ArcDrop(new.h, second),
                       self |-> [self EXCEPT !.children[2] = new.id]]
        ELSE LET b  == balance_slices(f.value, f.summary, g.value, g.summary)
                 h1 == [h EXCEPT !.node[first] =
                            LeafNodeWith(b.left.text, b.left.summary)]
             IN  IF b.some
                 THEN LET new == ArcNew(h1, LeafNodeWith(b.right.text, b.right.summary))
                      IN  [h |-> ArcDrop(new.h, second),
                           self |-> [self EXCEPT !.children[2] = new.id]]
                 ELSE [h |-> ArcDrop(h1, second),
                       self |-> [self EXCEPT !.leaf_count = @ - 1,
                                             !.children = RemoveAt(@, 1)]]

\* A balance of the last child that returns without looking at the child.
balance_last_child_with_penultimateQuiet(h, self) == [h |-> h, self |-> self]

\* Inode::balance_last_child_with_penultimate
balance_last_child_with_penultimate(h, self) ==
    IF len(self) < 2 THEN [h |-> Panic(h), self |-> self]
    ELSE IF ~NodeIsUnderfilled(h, self.children[len(self)]) THEN [h |-> h, self |-> self]
    ELSE IF ~ArcIsUnique(h, self.children[len(self)]) THEN [h |-> Panic(h), self |-> self]
    ELSE
    LET last_idx == len(self) - 1
        penultimate == self.children[last_idx]
        last == self.children[last_idx + 1]
        p == h.node[penultimate]
        l == h.node[last]
    IN  IF l.kind = "Internal"
        THEN IF len(p) + len(l) <= max_children
             THEN LET h1 == ArcCloneAll(h, p.children)
                      merged == [l EXCEPT !.children = p.children \o @,
                                          !.leaf_count = @ + p.leaf_count,
                                          !.summary = SummaryAdd(@, p.summary)]
                      h2 == [h1 EXCEPT !.node[last] = merged]
                  IN  [h |-> ArcDrop(h2, penultimate),
                       self |-> [self EXCEPT !.children = RemoveAt(@, last_idx - 1)]]
             ELSE LET to_last == min_children - len(l)
                      keep_penultimate == SubSeq(p.children, 1, len(p) - to_last)
                      moved == SubSeq(p.children, len(p) - to_last + 1, len(p))
                      h1 == ArcCloneAll(h, moved)
                      h2 == [h1 EXCEPT !.node[last] = insertAll(h1, l, 0, moved)]
                      h3 == ArcCloneAll(h2, keep_penultimate)
                      new == ArcNew(h3, from_children(h3, keep_penultimate))
                  IN  [h |-> ArcDrop(new.h, penultimate),
                       self |-> [self EXCEPT !.children[last_idx] = new.id]]
        ELSE LET b == balance_slices(p.value, p.summary, l.value, l.summary)
             IN  IF b.some
                 THEN LET h1 == [h EXCEPT !.node[last] =
                                     LeafNodeWith(b.right.text, b.right.summary)]
                          new == ArcNew(h1, LeafNodeWith(b.left.text, b.left.summary))
                      IN  [h |-> ArcDrop(new.h, penultimate),
                           self |-> [self EXCEPT !.children[last_idx] = new.id]]
                 ELSE LET h1 == [h EXCEPT !.node[last] =
                                     LeafNodeWith(b.left.text, b.left.summary)]
                      IN  [h |-> ArcDrop(h1, penultimate),
                           self |-> [self EXCEPT !.leaf_count = @ - 1,
                                                 !.children = RemoveAt(@, last_idx - 1)]]

\* A balance of the left side that stops at the first level.
balance_left_sideTop(h, self) == balance_first_child_with_second(h, self)

\* Inode::balance_left_side
RECURSIVE balance_left_side(_, _)
balance_left_side(h, self) ==
    LET Down(b1) ==
            LET first == b1.self.children[1]
                pre == WithChildMutPre(b1.h, b1.self, 0)
                Up(rec) ==
                    LET h1  == [rec.h EXCEPT !.node[first] = rec.self]
                        self1 == WithChildMutPost(h1, pre, 0, first)
                    IN  IF is_underfilled(rec.self) /\ len(self1) > 1
                        THEN balance_first_child_with_second(h1, self1)
                        ELSE [h |-> h1, self |-> self1]
            IN  IF b1.h.panicked THEN b1
                ELSE IF ~ArcIsUnique(b1.h, first)
                THEN [h |-> Panic(b1.h), self |-> b1.self]
                ELSE IF b1.h.node[first].kind = "Leaf" THEN b1
                ELSE Up(balance_left_side(b1.h, b1.h.node[first]))
    IN  Down(balance_first_child_with_second(h, self))

\* Inode::balance_right_side
RECURSIVE balance_right_side(_, _)
balance_right_side(h, self) ==
    LET Down(b1) ==
            LET last_idx == len(b1.self) - 1
                last == b1.self.children[last_idx + 1]
                pre == WithChildMutPre(b1.h, b1.self, last_idx)
                Up(rec) ==
                    LET h1  == [rec.h EXCEPT !.node[last] = rec.self]
                        self1 == WithChildMutPost(h1, pre, last_idx, last)
                    IN  IF is_underfilled(rec.self) /\ len(self1) > 1
                        THEN balance_last_child_with_penultimate(h1, self1)
                        ELSE [h |-> h1, self |-> self1]
            IN  IF b1.h.panicked THEN b1
                ELSE IF ~ArcIsUnique(b1.h, last)
                THEN [h |-> Panic(b1.h), self |-> b1.self]
                ELSE IF b1.h.node[last].kind = "Leaf" THEN b1
                ELSE Up(balance_right_side(b1.h, b1.h.node[last]))
    IN  Down(balance_last_child_with_penultimate(h, self))

----------------------------------------------------------------------------
(* tree.rs *)

\* A from_leaves that puts an inode above a single leaf too.
TreeFromLeavesInode(h, leaves) ==
    LET built == from_leaves(h, leaves)
        new   == ArcNew(built.h, built.inode)
    IN  [h |-> new.h, root |-> new.id]

\* Tree::from_leaves, for a non-empty iterator: the heap and the root Arc.
TreeFromLeaves(h, leaves) ==
    IF Len(leaves) = 1
    THEN LET new == ArcNew(h, LeafNode(leaves[1])) IN [h |-> new.h, root |-> new.id]
    ELSE LET built == from_leaves(h, leaves)
             new   == ArcNew(built.h, built.inode)
         IN  [h |-> new.h, root |-> new.id]

\* Tree::summary
TreeSummary(h, root) == h.node[root].summary

\* Tree::leaves: the leaf values of the subtree of `id`, depth first, left to
\* right.
RECURSIVE Leaves(_, _)
RECURSIVE LeavesOfAll(_, _)
Leaves(h, id) ==
    IF h.node[id].kind = "Leaf" THEN << h.node[id].value >>
    ELSE LeavesOfAll(h, h.node[id].children)
LeavesOfAll(h, ids) ==
    IF ids = <<>> THEN <<>> ELSE Leaves(h, Head(ids)) \o LeavesOfAll(h, Tail(ids))

\* Node::summarize: the summary recomputed from the leaves.
RECURSIVE summarize(_, _)
RECURSIVE summarizeAll(_, _)
summarize(h, id) ==
    IF h.node[id].kind = "Leaf" THEN h.node[id].summary
    ELSE summarizeAll(h, h.node[id].children)
summarizeAll(h, ids) ==
    IF ids = <<>> THEN DefaultSummary
    ELSE SummaryAdd(summarize(h, Head(ids)), summarizeAll(h, Tail(ids)))

\* The Arcs of the inodes of the subtree of `id`.
RECURSIVE Inodes(_, _)
RECURSIVE InodesOfAll(_, _)
Inodes(h, id) ==
    IF h.node[id].kind = "Leaf" THEN {}
    ELSE {id} \cup InodesOfAll(h, h.node[id].children)
InodesOfAll(h, ids) ==
    IF ids = <<>> THEN {} ELSE Inodes(h, Head(ids)) \cup InodesOfAll(h, Tail(ids))

----------------------------------------------------------------------------
(* Building a tree: the leaves are chunks, taken in turn from a few texts. *)

TextPool ==
    << <<"a", "a">>, <<"a", LF>>, <<"a", "a", "a">>, <<LF, "a", "a", LF>>,
       <<"a", "a", LF, "a">> >>

LeafSeq(n, offset) ==
    [i \in 1..n |-> TextPool[((i + offset) % Len(TextPool)) + 1]]

\* Tree::from_leaves
FromLeaves ==
    /\ bPc = "input"
    /\ IF Len(bLeaves) = 0
       THEN /\ bPc' = "panic"
            /\ UNCHANGED <<heap, bRoot>>
       ELSE LET tree == TreeFromLeaves(heap, bLeaves)
            IN  /\ heap' = tree.h
                /\ bRoot' = tree.root
                /\ bPc' = "built"
    /\ UNCHANGED <<fanout, bLeaves>>
    /\ UNCHANGED chunkVars
    /\ UNCHANGED treeVars
    /\ UNCHANGED sliceVars
    /\ UNCHANGED leafVars
    /\ UNCHANGED unitVars

ChunkIdle ==
    /\ cInput = <<>>
    /\ cStr = <<>>
    /\ cChunks = <<>>
    /\ cDone = TRUE

BuildIdle ==
    /\ bLeaves = <<>>
    /\ bRoot = Null
    /\ bPc = "idle"

NoOp == [op |-> "none", split |-> FALSE, changed |-> FALSE]

NoSnap == [summary |-> DefaultSummary, leaves |-> <<>>]

TreeIdle ==
    /\ tRoot = Null
    /\ tClone = Null
    /\ tSnap = NoSnap
    /\ tOps = 0
    /\ tLast = NoOp
    /\ tPc = "idle"

\* TreeSlice::empty
EmptySlice ==
    [root |-> Null, start |-> 0, end |-> 0, summary |-> DefaultSummary]

NoRange == [metric |-> "none", start |-> 0, end |-> 0, from |-> 0, to |-> 0]

NoProbe == [asked |-> FALSE, byte |-> 0, line |-> 0, lo |-> 0, hi |-> 0]

SliceIdle ==
    /\ sText = <<>>
    /\ sRoot = Null
    /\ sSlice = EmptySlice
    /\ sNest = 0
    /\ sAbs = NoRange
    /\ sProbe = NoProbe
    /\ sPc = "idle"

NoChunks == [left |-> NoChunk, some |-> FALSE, right |-> NoChunk]

LeafIdle ==
    /\ kLeft = <<>>
    /\ kRight = <<>>
    /\ kOut = NoChunks
    /\ kPc = "idle"

NoIter == [children |-> <<>>, start |-> 0, yielded |-> 0, end |-> 0]

UnitIdle ==
    /\ uInput = <<>>
    /\ uSelf = empty
    /\ uOther = empty
    /\ uIter = NoIter
    /\ uOut = <<>>
    /\ uLens = <<>>
    /\ uPc = "idle"

BuildInit ==
    /\ ChunkIdle
    /\ fanout \in 4..MaxFanout
    /\ heap = EmptyHeap
    /\ bLeaves \in { LeafSeq(n, o) : n \in 0..MaxLeaves, o \in 0..1 }
    /\ bRoot = Null
    /\ bPc = "input"
    /\ TreeIdle
    /\ SliceIdle
    /\ LeafIdle
    /\ UnitIdle

BuildNext == FromLeaves

ChunkInit ==
    /\ cInput \in StringsOf(MaxChars)
    /\ cStr = cInput
    /\ cChunks = <<>>
    /\ cDone = FALSE
    /\ fanout = 4
    /\ heap = EmptyHeap
    /\ BuildIdle
    /\ TreeIdle
    /\ SliceIdle
    /\ LeafIdle
    /\ UnitIdle

ChunkNext == RopeChunkIterNext

SpecChunk == ChunkInit /\ [][ChunkNext]_vars

SpecBuild == BuildInit /\ [][BuildNext]_vars

----------------------------------------------------------------------------
(* Operations on the root inode of a tree.  The tree reaches its root inode *)
(* through Arc::make_mut; inodes an operation returns beside `self` become  *)
(* its siblings under a new root.                                           *)

B1 == <<"b">>

B3 == <<"b", LF, "b">>

\* The nodes handed to the operations: an underfilled leaf, a leaf, an
\* underfilled inode and an inode, as the depth of the node and its leaves.
Fresh ==
    { [d |-> 0, t |-> <<B1>>], [d |-> 0, t |-> <<B3>>],
      [d |-> 1, t |-> <<B3>>], [d |-> 1, t |-> <<B3, B1, B3>>] }

\* Arc::new of the node `f` describes.
NewNode(h, f) ==
    IF f.d = 0 THEN ArcNew(h, LeafNode(f.t[1]))
    ELSE LET ls == NewLeaves(h, f.t, <<>>)
         IN  ArcNew(ls.h, from_children(ls.h, ls.ids))

\* k new nodes of depth d, each as large as its level asks.
RECURSIVE NewNodes(_, _, _, _)
NewNodes(h, d, k, out) ==
    IF k = 0 THEN [h |-> h, ids |-> out]
    ELSE LET new == NewNode(h, IF d = 0 THEN [d |-> 0, t |-> <<B3>>]
                                        ELSE [d |-> 1, t |-> <<B3, B3>>])
         IN  NewNodes(new.h, d, k - 1, Append(out, new.id))

Running == tPc = "run" /\ tOps < MaxOps

\* The child offsets tried on an inode of n children: the ends and the middle.
Offsets(n) == {0, n \div 2, n}

\* The child indexes tried on an inode of n children.
Indexes(n) == {i \in {0, n \div 2, n - 1} : i >= 0 /\ i < n}

Root == ArcMakeMut(heap, tRoot)

RootInode == heap.node[tRoot]

\* What an operation leaves: the heap, the root inode, and the inodes that
\* go beside it (before it when `before` holds).
Finish(name, rootId, h, self, extras, before) ==
    /\ tOps' = tOps + 1
    /\ tLast' = [op |-> name, split |-> extras # <<>>,
                 changed |-> h.node # heap.node \/ self # heap.node[tRoot]]
    /\ IF h.panicked
       THEN /\ tPc' = "panic"
            /\ UNCHANGED <<heap, tRoot>>
       ELSE /\ tPc' = "run"
            /\ LET h1 == [h EXCEPT !.node[rootId] = self]
               IN  IF extras = <<>>
                   THEN /\ heap' = h1
                        /\ tRoot' = rootId
                   ELSE LET news == ArcNewAll(h1, extras, <<>>)
                            ids  == IF before THEN news.ids \o <<rootId>>
                                    ELSE <<rootId>> \o news.ids
                            top  == from_nodes(news.h, ids)
                            root == ArcNew(top.h, top.inode)
                        IN  /\ heap' = root.h
                            /\ tRoot' = root.id
    /\ UNCHANGED <<fanout, tClone, tSnap>>
    /\ UNCHANGED chunkVars
    /\ UNCHANGED buildVars
    /\ UNCHANGED sliceVars
    /\ UNCHANGED leafVars
    /\ UNCHANGED unitVars

ExtraOf(r) == IF r.extra.some THEN <<r.extra.inode>> ELSE <<>>

\* What an operation leaves when it returns after a write past the end of
\* the children array (Children::insert on a full array, without debug
\* assertions): the root inode counts one child more than the array holds,
\* and nothing runs after it.
Undefined(name, rootId, h, self) ==
    /\ tOps' = tOps + 1
    /\ tLast' = [op |-> name, split |-> FALSE, changed |-> TRUE]
    /\ tPc' = "undefined"
    /\ heap' = [h EXCEPT !.node[rootId] = self, !.panicked = FALSE]
    /\ tRoot' = rootId
    /\ UNCHANGED <<fanout, tClone, tSnap>>
    /\ UNCHANGED chunkVars
    /\ UNCHANGED buildVars
    /\ UNCHANGED sliceVars
    /\ UNCHANGED leafVars
    /\ UNCHANGED unitVars

\* debug_assert! is compiled in or out.
Builds == {"debug", "release"}

\* Tree::clone: a second handle on the same root.
Clone ==
    /\ Running
    /\ tClone = Null
    /\ heap' = ArcClone(heap, tRoot)
    /\ tClone' = tRoot
    /\ tSnap' = [summary |-> TreeSummary(heap, tRoot), leaves |-> Leaves(heap, tRoot)]
    /\ tLast' = [op |-> "clone", split |-> FALSE, changed |-> FALSE]
    /\ UNCHANGED <<fanout, tRoot, tOps, tPc>>
    /\ UNCHANGED chunkVars
    /\ UNCHANGED buildVars
    /\ UNCHANGED sliceVars
    /\ UNCHANGED leafVars
    /\ UNCHANGED unitVars

AppendAtDepth ==
    /\ Running
    /\ ~is_empty(RootInode)
    /\ \E f \in Fresh :
        /\ f.d < RootInode.depth
        /\ LET root == Root
               node == NewNode(root.h, f)
               r == append_at_depth(node.h, node.h.node[root.id], node.id)
           IN  Finish("append_at_depth", root.id, r.h, r.self, ExtraOf(r), FALSE)

PrependAtDepth ==
    /\ Running
    /\ ~is_empty(RootInode)
    /\ \E f \in Fresh :
        /\ f.d < RootInode.depth
        /\ LET root == Root
               node == NewNode(root.h, f)
               r == prepend_at_depth(node.h, node.h.node[root.id], node.id)
           IN  Finish("prepend_at_depth", root.id, r.h, r.self, ExtraOf(r), TRUE)

InsertAtDepth ==
    /\ Running
    /\ RootInode.depth >= 2
    /\ ~is_empty(RootInode)
    /\ \E f \in Fresh, child_offset \in Offsets(len(RootInode)), build \in Builds :
        /\ f.d < RootInode.depth - 1
        /\ LET root == Root
               node == NewNode(root.h, f)
               r == insert_at_depth(node.h, node.h.node[root.id], child_offset, node.id)
           IN  \* Children::insert on a full array: the debug assertions
               \* panic; without them the copy writes one slot past the
               \* array, and indexing the slot `max_children` panics.
               IF r.h.panicked /\ build = "release" /\ child_offset < max_children
               THEN Undefined("insert_at_depth", root.id, r.h, r.self)
               ELSE Finish("insert_at_depth", root.id, r.h, r.self, <<>>, FALSE)

InsertChildren ==
    /\ Running
    /\ RootInode.depth \in 1..2
    /\ \E k \in 1..3, child_offset \in Offsets(len(RootInode)) :
           LET root == Root
               nodes == NewNodes(root.h, RootInode.depth - 1, k, <<>>)
               r == insert_children(nodes.h, nodes.h.node[root.id], child_offset, nodes.ids)
           IN  Finish("insert_children", root.id, r.h, r.self, r.extra.inodes, FALSE)

FitsBelow(f) == is_empty(RootInode) \/ f.d + 1 = RootInode.depth

Push ==
    /\ Running
    /\ ~is_full(RootInode)
    /\ \E f \in Fresh :
        /\ FitsBelow(f)
        /\ LET root == Root
               node == NewNode(root.h, f)
           IN  Finish("push", root.id, node.h,
                      push(node.h, node.h.node[root.id], node.id), <<>>, FALSE)

Insert ==
    /\ Running
    /\ ~is_full(RootInode)
    /\ \E f \in Fresh, child_offset \in Offsets(len(RootInode)) :
        /\ FitsBelow(f)
        /\ LET root == Root
               node == NewNode(root.h, f)
           IN  Finish("insert", root.id, node.h,
                      insert(node.h, node.h.node[root.id], child_offset, node.id),
                      <<>>, FALSE)

Remove ==
    /\ Running
    /\ \E child_idx \in Indexes(len(RootInode)) :
           LET root == Root
               self == root.h.node[root.id]
               child == self.children[child_idx + 1]
           IN  Finish("remove", root.id, ArcDrop(root.h, child),
                      remove(root.h, self, child_idx), <<>>, FALSE)

Swap ==
    /\ Running
    /\ \E f \in Fresh, child_idx \in Indexes(len(RootInode)) :
        /\ f.d + 1 = RootInode.depth
        /\ LET root == Root
               node == NewNode(root.h, f)
               self == node.h.node[root.id]
               old  == self.children[child_idx + 1]
           IN  Finish("swap", root.id, ArcDrop(node.h, old),
                      swap(node.h, self, child_idx, node.id), <<>>, FALSE)

Drain ==
    /\ Running
    /\ \E start \in Offsets(len(RootInode)), end \in Offsets(len(RootInode)) :
        /\ start <= end
        /\ LET root == Root
               d == drain(root.h, root.h.node[root.id], start, end)
           IN  Finish("drain", root.id, ArcDropAll(root.h, d.items), d.self,
                      <<>>, FALSE)

BalanceChild ==
    /\ Running
    /\ len(RootInode) > 1
    /\ \E child_idx \in Indexes(len(RootInode)) :
           LET root == Root
               r == balance_child(root.h, root.h.node[root.id], child_idx)
           IN  Finish("balance_child", root.id, r.h, r.self, <<>>, FALSE)

BalanceFirstChildWithSecond ==
    /\ Running
    /\ len(RootInode) >= 2
    /\ LET root == Root
           r == balance_first_child_with_second(root.h, root.h.node[root.id])
       IN  Finish("balance_first_child_with_second", root.id, r.h, r.self, <<>>, FALSE)

BalanceLastChildWithPenultimate ==
    /\ Running
    /\ len(RootInode) >= 2
    /\ LET root == Root
           r == balance_last_child_with_penultimate(root.h, root.h.node[root.id])
       IN  Finish("balance_last_child_with_penultimate", root.id, r.h, r.self,
                  <<>>, FALSE)

BalanceLeftSide ==
    /\ Running
    /\ len(RootInode) >= 2
    /\ LET root == Root
           r == balance_left_side(root.h, root.h.node[root.id])
       IN  Finish("balance_left_side", root.id, r.h, r.self, <<>>, FALSE)

BalanceRightSide ==
    /\ Running
    /\ len(RootInode) >= 2
    /\ LET root == Root
           r == balance_right_side(root.h, root.h.node[root.id])
       IN  Finish("balance_right_side", root.id, r.h, r.self, <<>>, FALSE)

\* The leaves "abc" and "d": the second one is too short for a chunk.
AbcD == << <<"a", "b", "c">>, <<"d">> >>

\* A 4-byte code point between two leaves that are too short for a chunk.
Wide == <<"L4", Cont, Cont, Cont>>

AWideA == << <<"a">>, Wide, <<"a">> >>

TreeInit ==
    /\ ChunkIdle
    /\ BuildIdle
    /\ fanout = 4
    /\ \E leaves \in { LeafSeq(n, 0) : n \in (2..MaxInitLeaves) \cup {fanout * fanout} }
                       \cup { AbcD, AWideA } :
           LET tree == TreeFromLeaves(EmptyHeap, leaves)
           IN  /\ heap = tree.h
               /\ tRoot = tree.root
    /\ tClone = Null
    /\ tSnap = NoSnap
    /\ tOps = 0
    /\ tLast = NoOp
    /\ tPc = "run"
    /\ SliceIdle
    /\ LeafIdle
    /\ UnitIdle

TreeNext ==
    \/ Clone
    \/ AppendAtDepth
    \/ PrependAtDepth
    \/ InsertAtDepth
    \/ InsertChildren
    \/ Push
    \/ Insert
    \/ Remove
    \/ Swap
    \/ Drain
    \/ BalanceChild
    \/ BalanceFirstChildWithSecond
    \/ BalanceLastChildWithPenultimate
    \/ BalanceLeftSide
    \/ BalanceRightSide

SpecTree == TreeInit /\ [][TreeNext]_vars

----------------------------------------------------------------------------
(* Metrics and TreeSlice.  Of the slices these sources hold Tree::slice    *)
(* (tree.rs); the metrics, TreeSlice and the line offsets of a RopeSlice   *)
(* are modelled as the specification describes them.  A TreeSlice is the   *)
(* deepest node holding its first and its last leaf, the bytes             *)
(* start..end of that node's text it covers, and its summary.              *)

ByteMetric == "ByteMetric"

RawLineMetric == "RawLineMetric"

Metrics == {ByteMetric, RawLineMetric}

\* Metric::measure
measure(M, summary) ==
    IF M = ByteMetric THEN summary.bytes ELSE summary.line_breaks

\* The byte offset just after the o-th line break of `text` from `from` on.
RECURSIVE AfterBreak(_, _, _)
AfterBreak(text, o, from) ==
    IF o = 0 \/ from >= Len(text) THEN from
    ELSE AfterBreak(text, IF text[from + 1] = LF THEN o - 1 ELSE o, from + 1)

\* Splitting a leaf: the byte offset of `text` whose prefix measures o.
SplitOffset(M, text, o) ==
    IF M = ByteMetric THEN o ELSE AfterBreak(text, o, 0)

\* The descent to an offset: the byte offset in the text of node `id` whose
\* prefix measures `target`, the children before it skipped by their cached
\* summaries.
RECURSIVE ByteOf(_, _, _, _)
RECURSIVE ByteOfIn(_, _, _, _)
ByteOf(h, id, M, target) ==
    IF h.node[id].kind = "Leaf"
    THEN SplitOffset(M, h.node[id].value, target)
    ELSE ByteOfIn(h, h.node[id].children, M, target)
ByteOfIn(h, ids, M, target) ==
    LET child == h.node[Head(ids)]
    IN  IF target <= measure(M, child.summary) \/ Len(ids) = 1
        THEN ByteOf(h, Head(ids), M, target)
        ELSE child.summary.bytes
                 + ByteOfIn(h, Tail(ids), M, target - measure(M, child.summary))

\* The summary of the first `pos` bytes of the text of node `id`.
RECURSIVE SummaryBefore(_, _, _)
RECURSIVE SummaryBeforeIn(_, _, _)
SummaryBefore(h, id, pos) ==
    IF h.node[id].kind = "Leaf"
    THEN ChunkSummarize(SubStr(h.node[id].value, 0, pos))
    ELSE SummaryBeforeIn(h, h.node[id].children, pos)
SummaryBeforeIn(h, ids, pos) ==
    IF ids = <<>> \/ pos <= 0 THEN DefaultSummary
    ELSE LET child == h.node[Head(ids)]
         IN  IF pos < child.summary.bytes
             THEN SummaryBefore(h, Head(ids), pos)
             ELSE SummaryAdd(child.summary,
                      SummaryBeforeIn(h, Tail(ids), pos - child.summary.bytes))

RECURSIVE SumCachedOf(_, _)
SumCachedOf(h, ids) ==
    IF ids = <<>> THEN DefaultSummary
    ELSE SummaryAdd(h.node[Head(ids)].summary, SumCachedOf(h, Tail(ids)))

\* The summary of the text of node `id` from byte `pos` on.
RECURSIVE SummaryAfter(_, _, _)
RECURSIVE SummaryAfterIn(_, _, _)
SummaryAfter(h, id, pos) ==
    IF h.node[id].kind = "Leaf"
    THEN ChunkSummarize(SubStr(h.node[id].value, pos, Len(h.node[id].value)))
    ELSE SummaryAfterIn(h, h.node[id].children, pos)
SummaryAfterIn(h, ids, pos) ==
    IF ids = <<>> THEN DefaultSummary
    ELSE LET child == h.node[Head(ids)]
         IN  IF pos >= child.summary.bytes
             THEN SummaryAfterIn(h, Tail(ids), pos - child.summary.bytes)
             ELSE SummaryAdd(SummaryAfter(h, Head(ids), pos),
                             SumCachedOf(h, Tail(ids)))

\* The child among `ids` that holds the bytes start..end, with the range in
\* it; Null when the range spans children.
RECURSIVE Holding(_, _, _, _)
Holding(h, ids, start, end) ==
    LET bytes == h.node[Head(ids)].summary.bytes
    IN  IF start >= bytes /\ Len(ids) > 1
        THEN Holding(h, Tail(ids), start - bytes, end - bytes)
        ELSE IF start < bytes /\ end <= bytes
        THEN [id |-> Head(ids), start |-> start, end |-> end]
        ELSE [id |-> Null, start |-> start, end |-> end]

\* The deepest node of the subtree of `id` whose text holds the bytes
\* start..end, with the range in it.
RECURSIVE DeepestHolding(_, _, _, _)
DeepestHolding(h, id, start, end) ==
    IF h.node[id].kind = "Leaf"
    THEN [root |-> id, start |-> start, end |-> end]
    ELSE LET Down(c) ==
                 IF c.id = Null
                 THEN [root |-> id, start |-> start, end |-> end]
                 ELSE DeepestHolding(h, c.id, c.start, c.end)
         IN  Down(Holding(h, h.node[id].children, start, end))

\* A summary less the prefix and the suffix a slice drops.
Less(summary, prefix, suffix) == SummarySub(SummarySub(summary, prefix), suffix)

\* The slice of the bytes start..end of node `node`: its summary is the
\* cached summary of the deepest node holding the range, less what that
\* node holds before `start` and after `end`.
SliceOfBytes(h, node, start, end) ==
    LET Cut(lca) ==
            [root |-> lca.root, start |-> lca.start, end |-> lca.end,
             summary |-> Less(h.node[lca.root].summary,
                              SummaryBefore(h, lca.root, lca.start),
                              SummaryAfter(h, lca.root, lca.end))]
    IN  Cut(DeepestHolding(h, node, start, end))

\* TreeSlice::from_range_in_node
from_range_in_node(h, node, M, start, end) ==
    SliceOfBytes(h, node, ByteOf(h, node, M, start), ByteOf(h, node, M, end))

\* The assertions of Tree::slice
SliceAsserts(M, start, end, summary) ==
    /\ 0 <= start
    /\ start <= end
    /\ end <= measure(M, summary)

\* A slice that descends the tree for an empty range too.
sliceDescending(h, root, M, start, end) ==
    from_range_in_node(h, root, M, start, end)

\* A slice that starts where the tree starts.
sliceFromZero(h, root, M, start, end) ==
    IF start = end THEN EmptySlice
    ELSE from_range_in_node(h, root, M, 0, end)

\* Tree::slice, its assertions passed
slice(h, root, M, start, end) ==
    IF start = end THEN EmptySlice
    ELSE from_range_in_node(h, root, M, start, end)

\* TreeSlice::slice, its assertions passed: the same construction in the
\* node of the slice, the offsets counted from where the slice starts.
TreeSliceSlice(h, s, M, start, end) ==
    IF start = end THEN EmptySlice
    ELSE LET off == measure(M, SummaryBefore(h, s.root, s.start))
             from == IF start = 0 THEN s.start
                     ELSE ByteOf(h, s.root, M, off + start)
         IN  SliceOfBytes(h, s.root, from, ByteOf(h, s.root, M, off + end))

\* The Arcs of the leaves of the subtree of `id`, left to right.
RECURSIVE LeafArcs(_, _)
RECURSIVE LeafArcsOfAll(_, _)
LeafArcs(h, id) ==
    IF h.node[id].kind = "Leaf" THEN << id >>
    ELSE LeafArcsOfAll(h, h.node[id].children)
LeafArcsOfAll(h, ids) ==
    IF ids = <<>> THEN <<>>
    ELSE LeafArcs(h, Head(ids)) \o LeafArcsOfAll(h, Tail(ids))

\* A leaf as a slice yields it: whole with its cached summary, or cut and
\* summarized.
Piece(leaf, from, to) ==
    IF from = 0 /\ to = Len(leaf.value)
    THEN [text |-> leaf.value, summary |-> leaf.summary]
    ELSE [text |-> SubStr(leaf.value, from, to),
          summary |-> ChunkSummarize(SubStr(leaf.value, from, to))]

RECURSIVE Clip(_, _, _, _)
Clip(h, ids, start, end) ==
    IF ids = <<>> \/ end <= 0 THEN <<>>
    ELSE LET leaf == h.node[Head(ids)]
             bytes == Len(leaf.value)
         IN  IF start >= bytes
             THEN Clip(h, Tail(ids), start - bytes, end - bytes)
             ELSE << Piece(leaf, IF start > 0 THEN start ELSE 0,
                                 IF end < bytes THEN end ELSE bytes) >>
                      \o Clip(h, Tail(ids), start - bytes, end - bytes)

\* TreeSlice::leaves: the rest of the first leaf, the leaves between, the
\* start of the last leaf.
SliceLeaves(h, s) ==
    IF s.root = Null THEN <<>> ELSE Clip(h, LeafArcs(h, s.root), s.start, s.end)

RECURSIVE TextOf(_)
TextOf(pieces) ==
    IF pieces = <<>> THEN <<>> ELSE Head(pieces).text \o TextOf(Tail(pieces))

\* The text of a slice.
SliceText(h, s) == TextOf(SliceLeaves(h, s))

\* RopeSlice::line_of_byte: the leaves before the byte are counted by their
\* summaries, the leaf of the byte by its text.
RECURSIVE LineOfByteIn(_, _)
LineOfByteIn(pieces, byte) ==
    IF pieces = <<>> THEN 0
    ELSE IF byte >= Head(pieces).summary.bytes
    THEN Head(pieces).summary.line_breaks
             + LineOfByteIn(Tail(pieces), byte - Head(pieces).summary.bytes)
    ELSE count_breaks(SubStr(Head(pieces).text, 0, byte))

line_of_byte(h, s, byte) == LineOfByteIn(SliceLeaves(h, s), byte)

\* RopeSlice::byte_of_line
RECURSIVE ByteOfLineIn(_, _)
ByteOfLineIn(pieces, line) ==
    IF pieces = <<>> THEN 0
    ELSE IF line > Head(pieces).summary.line_breaks
    THEN Head(pieces).summary.bytes
             + ByteOfLineIn(Tail(pieces), line - Head(pieces).summary.line_breaks)
    ELSE AfterBreak(Head(pieces).text, line, 0)

byte_of_line(h, s, line) == ByteOfLineIn(SliceLeaves(h, s), line)

----------------------------------------------------------------------------
(* Slicing a rope.  The rope is built as Rope::from builds it: the chunks  *)
(* of RopeChunkIter handed to Tree::from_leaves.                           *)

\* The chunks RopeChunkIter yields for s.
RECURSIVE ChunksOf(_)
ChunksOf(s) ==
    IF Len(s) = 0 THEN <<>>
    ELSE IF Len(s) >= ROPE_CHUNK_MAX_BYTES
    THEN << SubStr(s, 0, ChunkCut(s)) >> \o ChunksOf(SubStr(s, ChunkCut(s), Len(s)))
    ELSE << s >>

Letters == << "a", "b", "c" >>

\* A text of n bytes with a line break every `period` bytes.
TextOfLines(n, period, shift) ==
    [i \in 1..n |-> IF (i + shift) % period = 0 THEN LF ELSE Letters[(i % 3) + 1]]

\* The periods of the line breaks; the last leaves a text without any.
Periods == {2, 3, 5, 97}

SliceInit ==
    /\ ChunkIdle
    /\ BuildIdle
    /\ TreeIdle
    /\ LeafIdle
    /\ UnitIdle
    /\ fanout = 4
    /\ \E n \in 1..MaxText, period \in Periods, shift \in 0..1 :
           LET text == TextOfLines(n, period, shift)
               tree == TreeFromLeaves(EmptyHeap, ChunksOf(text))
           IN  /\ sText = text
               /\ heap = tree.h
               /\ sRoot = tree.root
    /\ sSlice = EmptySlice
    /\ sNest = 0
    /\ sAbs = NoRange
    /\ sProbe = NoProbe
    /\ sPc = "tree"

SliceUnchanged ==
    /\ UNCHANGED <<fanout, heap, sText, sRoot>>
    /\ UNCHANGED chunkVars
    /\ UNCHANGED buildVars
    /\ UNCHANGED treeVars
    /\ UNCHANGED leafVars
    /\ UNCHANGED unitVars

\* Tree::slice
TreeSlice ==
    /\ sPc = "tree"
    /\ \E M \in Metrics :
       \E start \in 0..measure(M, TreeSummary(heap, sRoot)),
          end \in 0..(measure(M, TreeSummary(heap, sRoot)) + 1) :
           IF ~SliceAsserts(M, start, end, TreeSummary(heap, sRoot))
           THEN /\ sPc' = "panic"
                /\ sAbs' = [metric |-> M, start |-> start, end |-> end,
                            from |-> 0, to |-> 0]
                /\ UNCHANGED <<sSlice, sNest, sProbe>>
           ELSE /\ sPc' = "sliced"
                /\ sSlice' = slice(heap, sRoot, M, start, end)
                /\ sNest' = 1
                /\ sAbs' = [metric |-> M, start |-> start, end |-> end,
                            from |-> SplitOffset(M, sText, start),
                            to |-> SplitOffset(M, sText, end)]
                /\ UNCHANGED sProbe
    /\ SliceUnchanged

\* TreeSlice::slice
Reslice ==
    /\ sPc = "sliced"
    /\ ~sProbe.asked
    /\ sNest < MaxNest
    /\ \E M \in Metrics :
       \E start \in 0..measure(M, sSlice.summary),
          end \in 0..(measure(M, sSlice.summary) + 1) :
           IF ~SliceAsserts(M, start, end, sSlice.summary)
           THEN /\ sPc' = "panic"
                /\ UNCHANGED <<sSlice, sNest, sAbs, sProbe>>
           ELSE LET same == sAbs.metric = M
                    text == SubStr(sText, sAbs.from, sAbs.to)
                IN  /\ sPc' = "sliced"
                    /\ sSlice' = TreeSliceSlice(heap, sSlice, M, start, end)
                    /\ sNest' = sNest + 1
                    /\ sAbs' = [metric |-> IF same THEN M ELSE "mixed",
                                start |-> IF same THEN sAbs.start + start ELSE 0,
                                end |-> IF same THEN sAbs.start + end ELSE 0,
                                from |-> sAbs.from + SplitOffset(M, text, start),
                                to |-> sAbs.from + SplitOffset(M, text, end)]
                    /\ UNCHANGED sProbe
    /\ SliceUnchanged

\* RopeSlice::line_of_byte of a byte of the slice, then RopeSlice::byte_of_line
\* of the line it returned and of the line after it.
LineOfByte ==
    /\ sPc = "sliced"
    /\ ~sProbe.asked
    /\ sSlice.root # Null
    /\ \E byte \in 0..(sSlice.summary.bytes - 1) :
           LET Asked(line) ==
                   [asked |-> TRUE, byte |-> byte, line |-> line,
                    lo |-> byte_of_line(heap, sSlice, line),
                    hi |-> IF line = sSlice.summary.line_breaks
                           THEN sSlice.summary.bytes
                           ELSE byte_of_line(heap, sSlice, line + 1)]
           IN  sProbe' = Asked(line_of_byte(heap, sSlice, byte))
    /\ UNCHANGED <<sSlice, sNest, sAbs, sPc>>
    /\ SliceUnchanged

SliceNext ==
    \/ TreeSlice
    \/ Reslice
    \/ LineOfByte

SpecSlice == SliceInit /\ [][SliceNext]_vars

----------------------------------------------------------------------------
(* Claims about the chunk iterator *)

Last(s) == s[Len(s)]

\* The byte offset in the input at which chunk i ends.
CutAfter(i) == Len(Concat(SubSeq(cChunks, 1, i)))

\* C9: no chunk ends with '\r' while the chunk yielded after it begins with
\* '\n', also when that '\n' is the last byte of the input.
C9_NoCrlfSplit ==
    \A i \in 1..(Len(cChunks) - 1) :
        ~(Last(cChunks[i]) = CR /\ Head(cChunks[i + 1]) = LF)

\* C10: the chunks yielded are non-empty, every cut between two chunks is on
\* a code-point boundary of the input, the chunks yielded so far followed by
\* the rest of the iterator are the input (so all of them are the input once
\* next() returns None), and the empty string yields no chunk.
C10_ChunksPartitionInput ==
    /\ \A i \in 1..Len(cChunks) : cChunks[i] # <<>>
    /\ \A i \in 1..Len(cChunks) : is_char_boundary(cInput, CutAfter(i))
    /\ Concat(cChunks) \o cStr = cInput
    /\ cDone => Concat(cChunks) = cInput
    /\ cInput = <<>> => cChunks = <<>>

\* C10 witness: the iterator is exhausted, yielded several chunks, and one
\* cut was moved forward to reach a code-point boundary.
C10_Witness ==
    /\ cDone
    /\ Len(cChunks) >= 3
    /\ \E i \in 1..Len(cChunks) : Len(cChunks[i]) > ROPE_CHUNK_MAX_BYTES + 1

----------------------------------------------------------------------------
(* Claims about Tree::from_leaves *)

Built == bPc = "built"

RootNode == heap.node[bRoot]

\* C1: the leaves of the tree from_leaves built, depth first and left to
\* right, are the leaves it was given, element for element.
C1_LeavesInOrder ==
    Built => Leaves(heap, bRoot) = bLeaves

\* C1 witness: a tree of three levels of inodes was built.
C1_Witness ==
    /\ Built
    /\ Len(bLeaves) >= 17
    /\ RootNode.depth = 3
    /\ Leaves(heap, bRoot) = bLeaves

InBounds(n, lo) == len(n) >= lo /\ len(n) <= max_children

\* C2 as stated: after from_leaves of two or more leaves every inode, the
\* root included, has between min_children and max_children children.
C2_Original ==
    (Built /\ Len(bLeaves) >= 2) =>
        \A id \in Inodes(heap, bRoot) : InBounds(heap.node[id], min_children)

\* C2 amended: after from_leaves of two or more leaves every inode below the
\* root has between min_children and max_children children, and the root has
\* between 2 and max_children children.
C2_InodesInBounds ==
    (Built /\ Len(bLeaves) >= 2) =>
        /\ InBounds(RootNode, 2)
        /\ \A id \in Inodes(heap, bRoot) \ {bRoot} :
               InBounds(heap.node[id], min_children)

\* C2 witness: a built tree whose last pass of the segmenter had to leave
\* min_children nodes for the last inode.
C2_Witness ==
    /\ Built
    /\ Len(bLeaves) > max_children
    /\ Len(bLeaves) % max_children \in 1..(min_children - 1)
    /\ InBounds(RootNode, 2)

RECURSIVE SumSummaries(_)
SumSummaries(texts) ==
    IF texts = <<>> THEN DefaultSummary
    ELSE SummaryAdd(ChunkSummarize(Head(texts)), SumSummaries(Tail(texts)))

\* C5: Tree::summary() of the tree from_leaves built is the sum of the
\* summaries of the leaves it was given, whatever the number of inode levels.
C5_SummaryIsSumOfLeaves ==
    Built => TreeSummary(heap, bRoot) = SumSummaries(bLeaves)

\* C5 witness: 20 leaves under fanout 4, two levels of inodes under the root.
C5_Witness ==
    /\ Built
    /\ fanout = 4
    /\ Len(bLeaves) = 20
    /\ RootNode.depth = 3
    /\ TreeSummary(heap, bRoot).bytes > 0
    /\ TreeSummary(heap, bRoot).line_breaks > 0

----------------------------------------------------------------------------
(* Claims about the inode operations *)

RECURSIVE SumCached(_, _)
SumCached(h, ids) ==
    IF ids = <<>> THEN DefaultSummary
    ELSE SummaryAdd(h.node[Head(ids)].summary, SumCached(h, Tail(ids)))

RECURSIVE SumLeafCounts(_, _)
SumLeafCounts(h, ids) ==
    IF ids = <<>> THEN 0
    ELSE h.node[Head(ids)].leaf_count + SumLeafCounts(h, Tail(ids))

CachesAgree(h, id) ==
    /\ h.node[id].summary = SumCached(h, h.node[id].children)
    /\ h.node[id].summary = summarize(h, id)
    /\ h.node[id].leaf_count = SumLeafCounts(h, h.node[id].children)

\* C3: after any sequence of inode operations that returned, the cached
\* summary of every inode is the sum of its children's summaries (what
\* Node::summarize recomputes from the leaves) and its cached leaf_count is
\* the sum of its children's leaf counts.
C3_CachedSummaries ==
    tPc = "run" => \A id \in Inodes(heap, tRoot) : CachesAgree(heap, id)

\* C3 witness: two operations were applied, the last a
\* balance_last_child_with_penultimate that changed nodes of a tree of two
\* levels of inodes.
C3_Witness ==
    /\ tPc = "run"
    /\ tOps = 2
    /\ tLast.op = "balance_last_child_with_penultimate"
    /\ tLast.changed
    /\ RootInode.depth = 2
    /\ \A id \in Inodes(heap, tRoot) : CachesAgree(heap, id)

\* C4: once a tree is cloned, the operations on the tree, an append down its
\* right spine with the leaf balancing and the inode splitting it triggers
\* among them, leave the summary and the leaves of the clone as they were
\* when the clone was taken.
C4_SnapshotIsolation ==
    tClone # Null =>
        /\ TreeSummary(heap, tClone) = tSnap.summary
        /\ Leaves(heap, tClone) = tSnap.leaves

\* C4 witness: after the clone an append went down the right spine of a tree
\* of two levels of inodes and split an inode, and the tree now differs from
\* its clone.
C4_Witness ==
    /\ tClone # Null
    /\ tPc = "run"
    /\ tLast.op = "append_at_depth"
    /\ tLast.split
    /\ RootInode.depth = 3
    /\ Leaves(heap, tRoot) # tSnap.leaves
    /\ Leaves(heap, tClone) = tSnap.leaves

----------------------------------------------------------------------------
(* Claims about slices *)

Sliced == sPc = "sliced"

\* C6: the slice c..d of the slice a..b of a tree has the text and the
\* summary of the slice (a+c)..(a+d) of the tree, and the text of a slice of
\* a slice is the part of the rope's text the offsets select, however many
\* slices were taken one of the other.
C6_SliceComposition ==
    (Sliced /\ sNest >= 2) =>
        /\ sAbs.metric \in Metrics =>
               /\ SliceText(heap, sSlice)
                      = SliceText(heap, slice(heap, sRoot, sAbs.metric,
                                              sAbs.start, sAbs.end))
               /\ sSlice.summary
                      = slice(heap, sRoot, sAbs.metric,
                              sAbs.start, sAbs.end).summary
        /\ SliceText(heap, sSlice) = SubStr(sText, sAbs.from, sAbs.to)

\* C6 witness: a byte slice of a byte slice that starts inside a leaf, past
\* the start of the first slice, and whose node is an inode below the root.
C6_Witness ==
    /\ Sliced
    /\ sNest = 2
    /\ sAbs.metric = ByteMetric
    /\ sSlice.root \notin {Null, sRoot}
    /\ heap.node[sSlice.root].kind = "Internal"
    /\ sAbs.from % ROPE_CHUNK_MAX_BYTES # 0
    /\ Len(SliceLeaves(heap, sSlice)) >= 3
    /\ SliceText(heap, sSlice) = SubStr(sText, sAbs.from, sAbs.to)

RECURSIVE SumOfPieces(_)
SumOfPieces(pieces) ==
    IF pieces = <<>> THEN DefaultSummary
    ELSE SummaryAdd(Head(pieces).summary, SumOfPieces(Tail(pieces)))

\* The part of the first leaf of a slice before the slice, and the part of
\* its last leaf after it.
RECURSIVE DroppedPrefix(_, _, _)
DroppedPrefix(h, ids, start) ==
    IF start >= Len(h.node[Head(ids)].value) /\ Len(ids) > 1
    THEN DroppedPrefix(h, Tail(ids), start - Len(h.node[Head(ids)].value))
    ELSE SubStr(h.node[Head(ids)].value, 0, start)

RECURSIVE DroppedSuffix(_, _, _)
DroppedSuffix(h, ids, end) ==
    IF end > Len(h.node[Head(ids)].value) /\ Len(ids) > 1
    THEN DroppedSuffix(h, Tail(ids), end - Len(h.node[Head(ids)].value))
    ELSE SubStr(h.node[Head(ids)].value, end, Len(h.node[Head(ids)].value))

\* The cached summary of the node of a slice less the prefix dropped from
\* the first leaf and the suffix dropped from the last leaf.
LessEdges(h, s) ==
    Less(h.node[s.root].summary,
         ChunkSummarize(DroppedPrefix(h, LeafArcs(h, s.root), s.start)),
         ChunkSummarize(DroppedSuffix(h, LeafArcs(h, s.root), s.end)))

----------------------------------------------------------------------------
(* Claims about the chunks as the leaves of a tree *)

\* C11: in the tree Tree::from_leaves builds from the chunks RopeChunkIter
\* yields for a string, every leaf is the only leaf of the tree or holds at
\* least min_bytes bytes.
C11_LeavesBigEnough ==
    sRoot # Null =>
        \/ Len(Leaves(heap, sRoot)) = 1
        \/ \A i \in 1..Len(Leaves(heap, sRoot)) :
               is_big_enough(ChunkSummarize(Leaves(heap, sRoot)[i]))

----------------------------------------------------------------------------
(* RopeChunk::balance_slices on its own: two adjacent chunk slices, one of  *)
(* them as long as a chunk can get, with their summaries.                   *)

\* The longest text a chunk holds: String::with_capacity(max_bytes + 3).
ChunkCapacity == ROPE_CHUNK_MAX_BYTES + 3

\* The strings of at most n bytes.
RECURSIVE SlicesOf(_)
SlicesOf(n) ==
    IF n = 0 THEN { <<>> }
    ELSE LET shorter == SlicesOf(n - 1)
         IN  shorter \cup { s \o c : s \in { t \in shorter : TRUE },
                                     c \in { d \in Chars : TRUE } }

ChunkSlices(n) == { s \in SlicesOf(n) : Len(s) <= n }

LeafInit ==
    /\ ChunkIdle
    /\ BuildIdle
    /\ TreeIdle
    /\ SliceIdle
    /\ fanout = 4
    /\ heap = EmptyHeap
    /\ \E long \in ChunkSlices(ChunkCapacity),
          short \in ChunkSlices(ROPE_CHUNK_MIN_BYTES), longFirst \in BOOLEAN :
           /\ kLeft = IF longFirst THEN long ELSE short
           /\ kRight = IF longFirst THEN short ELSE long
    /\ kOut = NoChunks
    /\ kPc = "input"
    /\ UnitIdle

\* RopeChunk::balance_slices
BalanceSlices ==
    /\ kPc = "input"
    /\ kOut' = balance_slices(kLeft, ChunkSummarize(kLeft),
                              kRight, ChunkSummarize(kRight))
    /\ kPc' = "balanced"
    /\ UNCHANGED <<kLeft, kRight, fanout, heap>>
    /\ UNCHANGED chunkVars
    /\ UNCHANGED buildVars
    /\ UNCHANGED treeVars
    /\ UNCHANGED sliceVars
    /\ UNCHANGED unitVars

LeafNext == BalanceSlices

SpecLeaf == LeafInit /\ [][LeafNext]_vars

----------------------------------------------------------------------------
(* Claims about RopeChunk::balance_slices *)

Balanced == kPc = "balanced"

\* The text of the chunks balance_slices returned, in order.
OutText == kOut.left.text \o (IF kOut.some THEN kOut.right.text ELSE <<>>)

\* C12: balance_slices returns one or two chunks whose concatenation is left
\* followed by right, each with the summary summarize() gives for it.
C12_BalanceKeepsText ==
    Balanced =>
        /\ OutText = kLeft \o kRight
        /\ kOut.left.summary = ChunkSummarize(kOut.left.text)
        /\ kOut.some => kOut.right.summary = ChunkSummarize(kOut.right.text)
        /\ ~kOut.some => kOut.right = NoChunk

\* Bytes with a line break were merged into one chunk.
C12_Witness ==
    /\ Balanced
    /\ ~kOut.some
    /\ kLeft # <<>>
    /\ kRight # <<>>
    /\ kOut.left.summary.line_breaks > ChunkSummarize(kLeft).line_breaks

\* The text is a sequence of whole code points.
RECURSIVE IsUtf8(_)
IsUtf8(s) ==
    IF s = <<>> THEN TRUE
    ELSE IF Head(s) \in {"a", CR, LF} THEN IsUtf8(Tail(s))
    ELSE IF Head(s) = "L2"
    THEN Len(s) >= 2 /\ s[2] = Cont /\ IsUtf8(SubSeq(s, 3, Len(s)))
    ELSE IF Head(s) = "L4"
    THEN /\ Len(s) >= 4
         /\ \A i \in 2..4 : s[i] = Cont
         /\ IsUtf8(SubSeq(s, 5, Len(s)))
    ELSE FALSE

\* `left` ends with '\r' and `right` begins with '\n'.
SplitsCrlf(left, right) ==
    /\ left # <<>>
    /\ right # <<>>
    /\ Last(left) = CR
    /\ Head(right) = LF

\* balance_slices returned two chunks for slices that do not split a CRLF.
TwoChunks == Balanced /\ kOut.some /\ ~SplitsCrlf(kLeft, kRight)

MaxOvershoot == 3

----------------------------------------------------------------------------
(* Claims about balancing the leaves of an inode *)

\* The step is balance_last_child_with_penultimate on the inode that holds
\* the two leaves "abc" and "d", which no clone of the tree shares.
BalancesAbcD ==
    /\ tPc = "run"
    /\ tClone = Null
    /\ Leaves(heap, tRoot) = AbcD
    /\ tOps' = tOps + 1
    /\ tLast'.op = "balance_last_child_with_penultimate"

\* C14 as stated: balancing the leaves "abc" and "d" of one inode leaves the
\* two leaves "ab" and "cd".
C14_Original ==
    [][BalancesAbcD =>
          Leaves(heap', tRoot') = << <<"a", "b">>, <<"c", "d">> >>]_vars

\* C14: with max_bytes = 4 the leaves "abc" and "d" of one inode fit in one
\* chunk, and balancing the last leaf with the one before it leaves the
\* inode with the single leaf "abcd".
C14_LeavesJoined ==
    [][BalancesAbcD =>
          /\ tPc' = "run"
          /\ Leaves(heap', tRoot') = << <<"a", "b", "c", "d">> >>
          /\ len(heap'.node[tRoot']) = 1
          /\ heap'.node[tRoot'].leaf_count = 1
          /\ heap'.node[tRoot'].summary = ChunkSummarize(<<"a", "b", "c", "d">>)]_vars

C14_Witness ==
    /\ tPc = "run"
    /\ tOps = 1
    /\ tLast.op = "balance_last_child_with_penultimate"
    /\ Leaves(heap, tRoot) = << <<"a", "b", "c", "d">> >>

----------------------------------------------------------------------------
(* Claims about the length the chunk iterator reports *)

\* RopeChunkIter::len (ExactSizeIterator)
RopeChunkIterLen(str) == IF Len(str) > ROPE_CHUNK_MAX_BYTES THEN 2 ELSE 1

\* C15: whenever it is asked, len() is at most the number of chunks next()
\* yields from then on.
C15_LenIsLowerBound ==
    cDone =>
        \A i \in 0..Len(cChunks) :
            RopeChunkIterLen(SubStr(cInput, CutAfter(i), Len(cInput)))
                <= Len(cChunks) - i

----------------------------------------------------------------------------
(* Claims about the preconditions of Tree::slice *)

\* Tree::slice was called on the tree, with the range sAbs records, and no
\* slice of the slice was taken.
SlicedTree == sAbs.metric \in Metrics /\ sNest <= 1

\* zero <= range.start <= range.end <= M::measure(tree.summary())
RangeInTree ==
    /\ 0 <= sAbs.start
    /\ sAbs.start <= sAbs.end
    /\ sAbs.end <= measure(sAbs.metric, TreeSummary(heap, sRoot))

\* C16: Tree::slice panics for every range that is not in the tree, and for
\* an empty range in the tree it returns the empty TreeSlice: no node, the
\* identity summary and no leaf.
C16_SlicePreconditions ==
    SlicedTree =>
        /\ ~RangeInTree => (sPc = "panic" /\ sNest = 0 /\ sSlice = EmptySlice)
        /\ RangeInTree => sNest = 1
        /\ (RangeInTree /\ sAbs.start = sAbs.end) =>
               /\ sSlice = EmptySlice
               /\ sSlice.root = Null
               /\ sSlice.summary = DefaultSummary
               /\ SliceLeaves(heap, sSlice) = <<>>

\* An empty range at the end of a tree of several leaves was sliced.
C16_Witness ==
    /\ SlicedTree
    /\ sPc = "sliced"
    /\ sAbs.start = sAbs.end
    /\ sAbs.start = measure(sAbs.metric, TreeSummary(heap, sRoot))
    /\ sAbs.start > 0
    /\ Len(Leaves(heap, sRoot)) >= 3
    /\ sSlice = EmptySlice

----------------------------------------------------------------------------
(* Claims about the root Tree::from_leaves builds *)

----------------------------------------------------------------------------
(* Appending leaves, one at a time, to a tree Tree::from_leaves built.  The *)
(* tree hands the leaf to append_at_depth of its root inode and puts a new  *)
(* root above an inode that is returned.                                    *)

\* The number of leaves appended to a tree.
MaxAppends == 20

\* The single-character leaf "x".
X1 == <<"x">>

\* The leaves appended: "x", and among the first appends a leaf that is big
\* enough.
AppendedLeaves == IF tOps < MaxOps THEN {X1, B3} ELSE {X1}

AppendInit ==
    /\ ChunkIdle
    /\ BuildIdle
    /\ SliceIdle
    /\ LeafIdle
    /\ UnitIdle
    /\ fanout \in 4..MaxFanout
    /\ heap = EmptyHeap
    /\ tRoot = Null
    /\ tClone = Null
    /\ tSnap = NoSnap
    /\ tOps = 0
    /\ tLast = NoOp
    /\ tPc = "new"

\* Tree::from_leaves of two leaves or more
NewTree ==
    /\ tPc = "new"
    /\ \E n \in 2..MaxLeaves :
           LET tree == TreeFromLeaves(heap, LeafSeq(n, 0))
           IN  /\ heap' = tree.h
               /\ tRoot' = tree.root
    /\ tPc' = "run"
    /\ tLast' = [op |-> "from_leaves", split |-> FALSE, changed |-> TRUE]
    /\ UNCHANGED <<fanout, tClone, tSnap, tOps>>
    /\ UNCHANGED chunkVars
    /\ UNCHANGED buildVars
    /\ UNCHANGED sliceVars
    /\ UNCHANGED leafVars
    /\ UNCHANGED unitVars

\* Inode::append_at_depth of the root with a new leaf
AppendLeaf ==
    /\ tPc = "run"
    /\ tOps < MaxAppends
    /\ \E text \in AppendedLeaves :
           LET root == Root
               node == NewNode(root.h, [d |-> 0, t |-> <<text>>])
               r == append_at_depth(node.h, node.h.node[root.id], node.id)
           IN  Finish("append_at_depth", root.id, r.h, r.self, ExtraOf(r), FALSE)

AppendNext ==
    \/ NewTree
    \/ AppendLeaf

SpecAppend == AppendInit /\ [][AppendNext]_vars

----------------------------------------------------------------------------
(* Claims about the depth of a tree *)

\* The least k with base^k >= n, for base >= 2 and n >= 1.
RECURSIVE CeilLogFrom(_, _, _, _)
CeilLogFrom(base, n, k, power) ==
    IF power >= n THEN k ELSE CeilLogFrom(base, n, k + 1, power * base)

CeilLog(base, n) == CeilLogFrom(base, n, 0, 1)

TreeDepth == heap.node[tRoot].depth

\* C18: a tree of at least two leaves, as from_leaves built it and after
\* every append of a leaf, is at most ceil(log_min_children(leaf_count))
\* deep.
C18_DepthBound ==
    (tPc = "run" /\ Len(Leaves(heap, tRoot)) >= 2) =>
        TreeDepth <= CeilLog(min_children, Len(Leaves(heap, tRoot)))

\* Twenty leaves were appended to a tree, which is as deep as the bound
\* allows.
C18_Witness ==
    /\ tPc = "run"
    /\ tOps = 20
    /\ tLast.op = "append_at_depth"
    /\ TreeDepth >= 2
    /\ TreeDepth = CeilLog(min_children, Len(Leaves(heap, tRoot)))

----------------------------------------------------------------------------
(* Claims about append_at_depth and prepend_at_depth.  The operation acts   *)
(* on the root inode; an inode it returns is put beside the root, under a   *)
(* new root of these two children.                                          *)

\* Inode::assert_invariants
InodeOk(h, id) ==
    /\ InBounds(h.node[id], min_children)
    /\ h.node[id].leaf_count = SumLeafCounts(h, h.node[id].children)
    /\ \A i \in 1..len(h.node[id]) :
           h.node[id].depth = h.node[h.node[id].children[i]].depth + 1

\* Every inode of the tree satisfies the invariants.
TreeOk(h, root) == \A id \in Inodes(h, root) : InodeOk(h, id)

\* The text of the leaves of a subtree.
TextUnder(h, id) == Concat(Leaves(h, id))

\* The text of the leaves of the nodes handed to the operations.
FreshTexts(depth) == { Concat(f.t) : f \in { g \in Fresh : g.d < depth } }

\* A step of the operation `name` on a root inode that satisfies the
\* invariants.
StepOf(name) ==
    /\ tPc = "run"
    /\ TreeOk(heap, tRoot)
    /\ tOps' = tOps + 1
    /\ tLast'.op = name

\* C19: after append_at_depth on an inode that satisfies the invariants,
\* the inode and the sibling it returns have between min_children and
\* max_children children, the sibling is as deep as the inode with its
\* children one level below, and the leaf text of the inode followed by the
\* sibling's is the old leaf text followed by the node's.
C19_AppendAtDepth ==
    [][StepOf("append_at_depth") =>
          /\ tPc' = "run"
          /\ Concat(Leaves(heap', tRoot')) \in
                 { Concat(Leaves(heap, tRoot)) \o t :
                       t \in FreshTexts(heap.node[tRoot].depth) }
          /\ ~tLast'.split =>
                 /\ InBounds(heap'.node[tRoot'], min_children)
                 /\ heap'.node[tRoot'].depth = heap.node[tRoot].depth
          /\ tLast'.split =>
                 /\ len(heap'.node[tRoot']) = 2
                 /\ \A i \in 1..2 :
                        /\ InBounds(heap'.node[heap'.node[tRoot'].children[i]],
                                    min_children)
                        /\ heap'.node[heap'.node[tRoot'].children[i]].depth
                               = heap.node[tRoot].depth
                        /\ InodeOk(heap', heap'.node[tRoot'].children[i])
                 /\ Len(TextUnder(heap', heap'.node[tRoot'].children[1]))
                        <= Len(TextUnder(heap, tRoot))]_vars

\* A leaf was appended to a full tree of two levels of inodes: the last
\* child of the root and the root itself were split.
C19_Witness ==
    /\ tPc = "run"
    /\ tOps = 1
    /\ tLast.op = "append_at_depth"
    /\ tLast.split
    /\ heap.node[tRoot].depth = 3

\* The children of the root after the step.
ChildAfter(i) == heap'.node[heap'.node[tRoot'].children[i]]

\* The step prepends the short leaf "b" to an inode whose first leaf has
\* room for it.
PrependsShortLeaf ==
    /\ heap.node[tRoot].depth = 1
    /\ Concat(Leaves(heap', tRoot')) = B1 \o Concat(Leaves(heap, tRoot))
    /\ Len(B1) + Len(Leaves(heap, tRoot)[1]) <= ROPE_CHUNK_MAX_BYTES

\* C20: after prepend_at_depth on an inode that satisfies the invariants,
\* the inode and the inode it returns have between min_children and
\* max_children children, the returned inode goes before the inode, and its
\* leaf text followed by the inode's is the node's leaf text followed by the
\* old leaf text; when the balance empties child 0, the node takes its place
\* and no inode is returned.
C20_PrependAtDepth ==
    [][StepOf("prepend_at_depth") =>
          /\ tPc' = "run"
          /\ Concat(Leaves(heap', tRoot')) \in
                 { t \o Concat(Leaves(heap, tRoot)) :
                       t \in FreshTexts(heap.node[tRoot].depth) }
          /\ ~tLast'.split =>
                 /\ InBounds(heap'.node[tRoot'], min_children)
                 /\ heap'.node[tRoot'].depth = heap.node[tRoot].depth
                 /\ len(heap'.node[tRoot']) \in
                        { len(heap.node[tRoot]), len(heap.node[tRoot]) + 1 }
                 /\ ~NodeIsEmpty(heap', heap'.node[tRoot'].children[1])
          /\ tLast'.split =>
                 /\ len(heap'.node[tRoot']) = 2
                 /\ \A i \in 1..2 :
                        /\ InBounds(ChildAfter(i), min_children)
                        /\ ChildAfter(i).depth = heap.node[tRoot].depth
                        /\ InodeOk(heap', heap'.node[tRoot'].children[i])
                 /\ Len(TextUnder(heap', heap'.node[tRoot'].children[2]))
                        <= Len(TextUnder(heap, tRoot))
                 /\ SubSeq(ChildAfter(2).children, 1, len(ChildAfter(2))) =
                        SubSeq(heap.node[tRoot].children,
                               len(heap.node[tRoot]) - len(ChildAfter(2)) + 1,
                               len(heap.node[tRoot]))
          /\ PrependsShortLeaf =>
                 /\ ~tLast'.split
                 /\ len(heap'.node[tRoot']) = len(heap.node[tRoot])
                 /\ Leaves(heap', tRoot')[1] = B1 \o Leaves(heap, tRoot)[1]]_vars

\* The short leaf "b" was prepended to a tree of one inode and joined the
\* first leaf: the inode has as many children as before.
C20_Witness ==
    /\ tPc = "run"
    /\ tOps = 1
    /\ tLast.op = "prepend_at_depth"
    /\ ~tLast.split
    /\ heap.node[tRoot].depth = 1
    /\ Leaves(heap, tRoot)[1] = B1 \o <<"a", LF>>

----------------------------------------------------------------------------
(* The ChildSegmenter on its own: it is created on some nodes of one depth  *)
(* and asked for its inodes one at a time, len() being read before each     *)
(* next().                                                                  *)

\* The largest number of nodes handed to a ChildSegmenter.
MaxNodes == 21

\* ExactSizeIterator::len of a ChildSegmenter with `remaining` nodes left.
ChildSegmenterLen(remaining) ==
    (remaining \div max_children)
        + (IF remaining % max_children # 0 THEN 1 ELSE 0)

SegmentInit ==
    /\ ChunkIdle
    /\ BuildIdle
    /\ TreeIdle
    /\ SliceIdle
    /\ LeafIdle
    /\ fanout \in 4..MaxFanout
    /\ heap = EmptyHeap
    /\ uInput = <<>>
    /\ uSelf = empty
    /\ uOther = empty
    /\ uIter = NoIter
    /\ uOut = <<>>
    /\ uLens = <<>>
    /\ uPc = "new"

\* ChildSegmenter::new on r >= min_children leaves
ChildSegmenterNew ==
    /\ uPc = "new"
    /\ \E r \in min_children..MaxNodes :
           LET nodes == NewLeaves(heap, LeafSeq(r, 0), <<>>)
           IN  /\ heap' = nodes.h
               /\ uInput' = nodes.ids
               /\ uIter' = [uIter EXCEPT !.children = nodes.ids]
    /\ uPc' = "iter"
    /\ UNCHANGED <<fanout, uSelf, uOther, uOut, uLens>>
    /\ UNCHANGED chunkVars
    /\ UNCHANGED buildVars
    /\ UNCHANGED treeVars
    /\ UNCHANGED sliceVars
    /\ UNCHANGED leafVars

\* len() followed by ChildSegmenter::next
ChildSegmenterNext ==
    /\ uPc = "iter"
    /\ LET remaining == Len(uIter.children)
           take == SegmenterTake(remaining)
       IN  /\ uLens' = Append(uLens, ChildSegmenterLen(remaining))
           /\ IF ~(remaining = 0 \/ remaining >= min_children)
              THEN /\ uPc' = "panic"
                   /\ UNCHANGED <<uIter, uOut>>
              ELSE IF remaining = 0
              THEN /\ uPc' = "done"
                   /\ UNCHANGED <<uIter, uOut>>
              ELSE IF ~(take >= min_children /\ take <= max_children)
                          \/ ~(remaining >= take)
              THEN /\ uPc' = "panic"
                   /\ UNCHANGED <<uIter, uOut>>
              ELSE /\ uPc' = "iter"
                   /\ uOut' = Append(uOut,
                          from_children(heap, SubSeq(uIter.children, 1, take)))
                   /\ uIter' = [uIter EXCEPT !.children =
                                    SubSeq(@, take + 1, remaining)]
    /\ UNCHANGED <<fanout, heap, uInput, uSelf, uOther>>
    /\ UNCHANGED chunkVars
    /\ UNCHANGED buildVars
    /\ UNCHANGED treeVars
    /\ UNCHANGED sliceVars
    /\ UNCHANGED leafVars

SegmentNext == ChildSegmenterNew \/ ChildSegmenterNext

SpecSegment == SegmentInit /\ [][SegmentNext]_vars

----------------------------------------------------------------------------
(* Inode::balance on its own: two inodes of one depth, of 0 to max_children *)
(* children each.                                                           *)

PairInit ==
    /\ ChunkIdle
    /\ BuildIdle
    /\ TreeIdle
    /\ SliceIdle
    /\ LeafIdle
    /\ fanout \in 4..MaxFanout
    /\ heap = EmptyHeap
    /\ uInput = <<>>
    /\ uSelf = empty
    /\ uOther = empty
    /\ uIter = NoIter
    /\ uOut = <<>>
    /\ uLens = <<>>
    /\ uPc = "new"

\* Two inodes made with Inode::from_children, the first on a leaves and the
\* second on the b leaves that follow.
NewPair ==
    /\ uPc = "new"
    /\ \E a \in 0..max_children, b \in 0..max_children :
           LET nodes == NewLeaves(heap, LeafSeq(a + b, 0), <<>>)
           IN  /\ heap' = nodes.h
               /\ uInput' = nodes.ids
               /\ uSelf' = from_children(nodes.h, SubSeq(nodes.ids, 1, a))
               /\ uOther' = from_children(nodes.h, SubSeq(nodes.ids, a + 1, a + b))
               /\ uLens' = <<a, b>>
    /\ uPc' = "pair"
    /\ UNCHANGED <<fanout, uIter, uOut>>
    /\ UNCHANGED chunkVars
    /\ UNCHANGED buildVars
    /\ UNCHANGED treeVars
    /\ UNCHANGED sliceVars
    /\ UNCHANGED leafVars

\* self.balance(other)
Balance ==
    /\ uPc = "pair"
    /\ LET b == balance(heap, uSelf, uOther)
       IN  /\ uSelf' = b.self
           /\ uOther' = b.other
    /\ uPc' = "balanced"
    /\ UNCHANGED <<fanout, heap, uInput, uIter, uOut, uLens>>
    /\ UNCHANGED chunkVars
    /\ UNCHANGED buildVars
    /\ UNCHANGED treeVars
    /\ UNCHANGED sliceVars
    /\ UNCHANGED leafVars

PairNext == NewPair \/ Balance

SpecPair == PairInit /\ [][PairNext]_vars

----------------------------------------------------------------------------
(* Claims about insert_at_depth, insert_children and the ChildSegmenter *)

\* C21: after insert_at_depth has returned on an inode that satisfies the
\* invariants, a full one included, the inode has at most max_children
\* children and satisfies the invariants, also when the child it delegates
\* to returned an overflow inode.
C21_InsertAtDepth ==
    [][(StepOf("insert_at_depth") /\ tPc' # "panic") =>
          /\ len(heap'.node[tRoot']) <= max_children
          /\ InodeOk(heap', tRoot')]_vars

\* The inodes an operation left: the root inode alone, or the root inode
\* followed by the inodes it returned, which are the children of a new root.
InodesAfter ==
    IF tLast'.split THEN heap'.node[tRoot'].children ELSE <<tRoot'>>

RECURSIVE ChildrenOfAll(_, _)
ChildrenOfAll(h, ids) ==
    IF ids = <<>> THEN <<>>
    ELSE h.node[Head(ids)].children \o ChildrenOfAll(h, Tail(ids))

\* The children of `self` followed by the children of the returned inodes.
ChildrenAfter == ChildrenOfAll(heap', InodesAfter)

\* `all` is `old` with new nodes, in the order they were made, put in at
\* `offset`.
InsertedAt(all, old, offset) ==
    LET k == Len(all) - Len(old)
    IN  /\ k >= 1
        /\ SubSeq(all, 1, offset) = SubSeq(old, 1, offset)
        /\ SubSeq(all, offset + k + 1, Len(all)) = SubSeq(old, offset + 1, Len(old))
        /\ \A i \in (offset + 1)..(offset + k) :
               /\ all[i] > Len(heap.node)
               /\ i > offset + 1 => all[i] > all[i - 1]

RECURSIVE ChildrenOfInodes(_)
ChildrenOfInodes(inodes) ==
    IF inodes = <<>> THEN <<>>
    ELSE Head(inodes).children \o ChildrenOfInodes(Tail(inodes))

\* C23: a ChildSegmenter created on min_children nodes or more fails none
\* of its debug assertions, yields inodes of min_children to max_children
\* children, and the children of the inodes yielded followed by the nodes
\* not yet taken are the input nodes, each once and in order.
C23_SegmenterInBounds ==
    uPc \in {"iter", "done", "panic"} =>
        /\ uPc # "panic"
        /\ \A i \in 1..Len(uOut) :
               /\ InBounds(uOut[i], min_children)
               /\ uOut[i].depth = 1
               /\ uOut[i].leaf_count = len(uOut[i])
        /\ ChildrenOfInodes(uOut) \o uIter.children = uInput
        /\ uPc = "done" => uIter.children = <<>>

\* The segmenter ran to its end on a number of nodes that leaves fewer than
\* min_children after the full inodes: the last two inodes share the rest.
C23_Witness ==
    /\ uPc = "done"
    /\ Len(uInput) > 2 * max_children
    /\ Len(uInput) % max_children \in 1..(min_children - 1)
    /\ Len(uOut) >= 3
    /\ len(uOut[Len(uOut)]) = min_children
    /\ len(uOut[Len(uOut) - 1]) < max_children
    /\ ChildrenOfInodes(uOut) = uInput

\* C30: what len() of a ChildSegmenter returns, ceil(remaining /
\* max_children), is the number of inodes next() still yields: once the
\* segmenter is exhausted, the len() read before the i-th next() is the
\* number of inodes yielded from then on.
C30_SegmenterLenExact ==
    uPc = "done" =>
        /\ Len(uLens) = Len(uOut) + 1
        /\ \A i \in 1..Len(uLens) : uLens[i] = Len(uOut) - (i - 1)

\* An exhausted segmenter that had reported 4 inodes for 13 nodes under
\* fanout 4 and went on to yield them.
C30_Witness ==
    /\ uPc = "done"
    /\ fanout = 4
    /\ Len(uInput) = 13
    /\ uLens = <<4, 3, 2, 1, 0>>
    /\ Len(uOut) = 4

----------------------------------------------------------------------------
(* Claims about Inode::balance *)

\* The cached summary and leaf count of an inode record are the sums over
\* its children.
CachesOf(h, inode) ==
    /\ inode.summary = SumCached(h, inode.children)
    /\ inode.leaf_count = SumLeafCounts(h, inode.children)

\* C24: after self.balance(other) on two inodes of at most max_children
\* children, nothing changed when neither was underfilled; else other is
\* empty and self holds all the children when they fit in one inode; else
\* both hold between min_children and max_children children.  The children
\* of self followed by those of other are the same sequence as before.
C24_BalanceInodes ==
    uPc = "balanced" =>
        /\ uSelf.children \o uOther.children = uInput
        /\ CachesOf(heap, uSelf)
        /\ CachesOf(heap, uOther)
        /\ IF uLens[1] >= min_children /\ uLens[2] >= min_children
           THEN len(uSelf) = uLens[1] /\ len(uOther) = uLens[2]
           ELSE IF uLens[1] + uLens[2] <= max_children
           THEN is_empty(uOther) /\ len(uSelf) = uLens[1] + uLens[2]
           ELSE /\ InBounds(uSelf, min_children)
                /\ InBounds(uOther, min_children)

\* Under fanout 5 an inode of 5 children gave one child to an inode of one
\* child.
C24_Witness ==
    /\ uPc = "balanced"
    /\ fanout = 5
    /\ uLens = <<5, 1>>
    /\ len(uSelf) = 4
    /\ len(uOther) = 2
    /\ uOther.children = SubSeq(uInput, 5, 6)

\* The number of children Inode::balance moved from one inode to the other.
Moved == IF len(uSelf) >= uLens[1] THEN len(uSelf) - uLens[1]
         ELSE uLens[1] - len(uSelf)

\* C25: when Inode::balance cannot merge the two inodes it moves exactly
\* min_children minus the length of the underfilled inode, whether that
\* inode is self or other.
C25_MovesMinimum ==
    (/\ uPc = "balanced"
     /\ uLens[1] + uLens[2] > max_children
     /\ (uLens[1] < min_children \/ uLens[2] < min_children)) =>
        Moved = min_children -
                    (IF uLens[1] < min_children THEN uLens[1] ELSE uLens[2])

----------------------------------------------------------------------------
(* Claims about balancing the first and the last child of an inode.  The    *)
(* inode is the root inode of the tree.                                     *)

\* Node fill bounds: a leaf of min_bytes to max_bytes bytes, an inode of
\* min_children to max_children children.
FillOk(h, id) ==
    IF h.node[id].kind = "Leaf"
    THEN /\ h.node[id].summary.bytes >= ROPE_CHUNK_MIN_BYTES
         /\ h.node[id].summary.bytes <= ROPE_CHUNK_MAX_BYTES
    ELSE InBounds(h.node[id], min_children)

\* The child of the root inode at index i (from 1), before and after a step.
ChildBefore(i) == heap.node[tRoot].children[i]

ChildOf(i) == heap'.node[tRoot'].children[i]

\* A step of the operation `name` on an inode of two children or more whose
\* child `mine` is underfilled and uniquely owned and whose child `sibling`
\* satisfies the fill bounds.
BalancesEnd(name, mine, sibling) ==
    /\ tPc = "run"
    /\ tOps' = tOps + 1
    /\ tLast'.op = name
    /\ len(heap.node[tRoot]) >= 2
    /\ ArcIsUnique(heap, tRoot)
    /\ ArcIsUnique(heap, ChildBefore(mine))
    /\ NodeIsUnderfilled(heap, ChildBefore(mine))
    /\ FillOk(heap, ChildBefore(sibling))

\* What both balances keep: the call returns, the leaf text and the summary
\* of the inode are what they were, and the leaf count is what it was, less
\* one when two leaves were merged into one.
BalanceKeeps ==
    /\ tPc' = "run"
    /\ Concat(Leaves(heap', tRoot')) = Concat(Leaves(heap, tRoot))
    /\ heap'.node[tRoot'].summary = heap.node[tRoot].summary
    /\ heap'.node[tRoot'].summary = summarize(heap', tRoot')
    /\ heap'.node[tRoot'].leaf_count = SumLeafCounts(heap', heap'.node[tRoot'].children)
    /\ heap'.node[tRoot'].leaf_count =
           IF /\ heap.node[tRoot].depth = 1
              /\ len(heap'.node[tRoot']) < len(heap.node[tRoot])
           THEN heap.node[tRoot].leaf_count - 1
           ELSE heap.node[tRoot].leaf_count

\* The sibling was removed, or it is still there and `ok` holds.
SiblingRemovedOr(ok) ==
    \/ len(heap'.node[tRoot']) = len(heap.node[tRoot]) - 1
    \/ /\ len(heap'.node[tRoot']) = len(heap.node[tRoot])
       /\ ok

SiblingKept(mine, sibling) ==
    \/ ~NodeIsUnderfilled(heap', ChildOf(sibling))
    \/ /\ heap'.node[ChildOf(mine)].kind = "Leaf"
       /\ heap'.node[ChildOf(mine)].summary.bytes > ROPE_CHUNK_MIN_BYTES

BalancesShared(name, mine) ==
    /\ tPc = "run"
    /\ tOps' = tOps + 1
    /\ tLast'.op = name
    /\ len(heap.node[tRoot]) >= 2
    /\ ~ArcIsUnique(heap, tRoot) \/ ~ArcIsUnique(heap, ChildBefore(mine))

PanicsIfUnderfilled(mine) ==
    IF NodeIsUnderfilled(heap, ChildBefore(mine))
    THEN tPc' = "panic"
    ELSE /\ tPc' = "run"
         /\ heap'.node[tRoot'].children = heap.node[tRoot].children
         /\ Leaves(heap', tRoot') = Leaves(heap, tRoot)

----------------------------------------------------------------------------
(* Inode::drain step by step: the range is taken out of the inode's summary *)
(* and leaf count, the iterator yields children one call at a time, and it  *)
(* may be dropped after any number of calls.                                *)

\* A drop that closes the gap over the yielded children only.
DrainDropChildrenYielded(children, it) ==
    SubSeq(children, 1, it.start)
        \o SubSeq(children, it.start + it.yielded + 1, Len(children))

\* Drop for Drain: the children after the range are copied to `start` and
\* the length is cut by end - start.
DrainDropChildren(children, it) ==
    SubSeq(children, 1, it.start) \o SubSeq(children, it.end + 1, Len(children))

\* Inode::drain(start..end) on the first inode of the pair
InodeDrain ==
    /\ uPc = "pair"
    /\ \E start \in 0..len(uSelf), end \in 0..len(uSelf) :
        /\ start <= end
        /\ uSelf' = SubtractAll(heap, uSelf, SubSeq(uSelf.children, start + 1, end))
        /\ uIter' = [children |-> uSelf.children, start |-> start,
                     yielded |-> 0, end |-> end]
    /\ uPc' = "drain"
    /\ UNCHANGED <<fanout, heap, uInput, uOther, uOut, uLens>>
    /\ UNCHANGED chunkVars
    /\ UNCHANGED buildVars
    /\ UNCHANGED treeVars
    /\ UNCHANGED sliceVars
    /\ UNCHANGED leafVars

\* Drain::next
DrainNext ==
    /\ uPc = "drain"
    /\ IF uIter.start + uIter.yielded = uIter.end
       THEN /\ uPc' = "none"
            /\ UNCHANGED <<uIter, uOut>>
       ELSE /\ uOut' = Append(uOut, uIter.children[uIter.start + uIter.yielded + 1])
            /\ uIter' = [uIter EXCEPT !.yielded = @ + 1]
            /\ uPc' = "drain"
    /\ UNCHANGED <<fanout, heap, uInput, uSelf, uOther, uLens>>
    /\ UNCHANGED chunkVars
    /\ UNCHANGED buildVars
    /\ UNCHANGED treeVars
    /\ UNCHANGED sliceVars
    /\ UNCHANGED leafVars

\* Drop for Drain, after any number of calls of next
DrainDrop ==
    /\ uPc \in {"drain", "none"}
    /\ heap' = ArcDropAll(heap, SubSeq(uIter.children,
                                       uIter.start + uIter.yielded + 1, uIter.end))
    /\ uSelf' = [uSelf EXCEPT !.children = DrainDropChildren(uIter.children, uIter)]
    /\ uPc' = "dropped"
    /\ UNCHANGED <<fanout, uInput, uOther, uIter, uOut, uLens>>
    /\ UNCHANGED chunkVars
    /\ UNCHANGED buildVars
    /\ UNCHANGED treeVars
    /\ UNCHANGED sliceVars
    /\ UNCHANGED leafVars

DrainNextStep == NewPair \/ InodeDrain \/ DrainNext \/ DrainDrop

SpecDrain == PairInit /\ [][DrainNextStep]_vars

----------------------------------------------------------------------------
(* balance_left_side and balance_right_side on trees whose left or right    *)
(* spine is short of children.  The tree is grown from the leaf at the end  *)
(* of the spine, one level at a time: the spine inode of a level gets one   *)
(* to three children, the sibling next to the spine node has b children,    *)
(* every other inode has min_children children, the leaf at the end of the  *)
(* spine may be too short, and every other leaf is a chunk.                 *)

\* A leaf of max_bytes bytes.
A4 == <<LF, "a", "a", LF>>

\* k subtrees of depth d: the inode at the top of each has b children, the
\* inodes below have min_children children, and the leaves hold `text`.
RECURSIVE FullTrees(_, _, _, _, _, _)
FullTrees(h, d, b, text, k, out) ==
    IF k = 0 THEN [h |-> h, ids |-> out]
    ELSE LET Put(new) == FullTrees(new.h, d, b, text, k - 1, Append(out, new.id))
             Above(kids) == ArcNew(kids.h, from_children(kids.h, kids.ids))
         IN  IF d = 0 THEN Put(ArcNew(h, LeafNode(text)))
             ELSE Put(Above(FullTrees(h, d - 1, min_children, text, b, <<>>)))

\* The siblings of a spine node of depth d: the one next to it has b
\* children.
Siblings(h, d, b, text, k) ==
    LET More(next) == FullTrees(next.h, d, min_children, text, k - 1, next.ids)
    IN  IF k = 0 THEN [h |-> h, ids |-> <<>>]
        ELSE More(FullTrees(h, d, b, text, 1, <<>>))

SpineInit ==
    /\ ChunkIdle
    /\ BuildIdle
    /\ SliceIdle
    /\ LeafIdle
    /\ UnitIdle
    /\ fanout \in 4..5
    /\ heap = EmptyHeap
    /\ tRoot = Null
    /\ tClone = Null
    /\ tSnap = NoSnap
    /\ tOps = 0
    /\ tLast = NoOp
    /\ tPc = "new"

\* The leaf at the end of the spine.
NewSpine ==
    /\ tPc = "new"
    /\ \E first \in {<<>>, B1, B3}, side \in {"left", "right"} :
           LET leaf == ArcNew(heap, LeafNode(first))
           IN  /\ heap' = leaf.h
               /\ tRoot' = leaf.id
               /\ tLast' = [op |-> side, split |-> FALSE, changed |-> TRUE]
    /\ tPc' = "grow"
    /\ UNCHANGED <<fanout, tClone, tSnap, tOps>>
    /\ UNCHANGED chunkVars
    /\ UNCHANGED buildVars
    /\ UNCHANGED sliceVars
    /\ UNCHANGED leafVars
    /\ UNCHANGED unitVars

\* An inode above the spine: the spine node with n - 1 siblings after it
\* (left spine) or before it (right spine).  The inode that ends the growth
\* is the inode the operations are called on.
GrowSpine ==
    /\ tPc = "grow"
    /\ \E n \in 1..3, b \in {min_children, max_children}, sib \in {B3, A4},
          last \in BOOLEAN :
        /\ last => n >= 2
        /\ ~last => heap.node[tRoot].depth < 2
        /\ heap.node[tRoot].depth = 0 => b = min_children
        /\ LET Kids(others) == IF tLast.op = "left" THEN <<tRoot>> \o others
                                ELSE others \o <<tRoot>>
               Top(others) == ArcNew(others.h, from_children(others.h, Kids(others.ids)))
               Grown(top) == /\ heap' = top.h
                             /\ tRoot' = top.id
           IN  Grown(Top(Siblings(heap, heap.node[tRoot].depth, b, sib, n - 1)))
        /\ tPc' = IF last THEN "run" ELSE "grow"
    /\ UNCHANGED <<fanout, tClone, tSnap, tOps, tLast>>
    /\ UNCHANGED chunkVars
    /\ UNCHANGED buildVars
    /\ UNCHANGED sliceVars
    /\ UNCHANGED leafVars
    /\ UNCHANGED unitVars

SpineNext == NewSpine \/ GrowSpine \/ BalanceLeftSide \/ BalanceRightSide

SpecSpine == SpineInit /\ [][SpineNext]_vars

\* The node of the spine below `id`: its first or its last child.
SpineChild(h, id, left) ==
    IF left THEN h.node[id].children[1]
    ELSE h.node[id].children[len(h.node[id])]

\* The Arcs of the spine below `id`, down to the leaf.
RECURSIVE SpineBelow(_, _, _)
SpineBelow(h, id, left) ==
    IF h.node[id].kind = "Leaf" \/ is_empty(h.node[id]) THEN {}
    ELSE {SpineChild(h, id, left)}
             \cup SpineBelow(h, SpineChild(h, id, left), left)

\* The Arcs of the subtree of `id`.
RECURSIVE NodesUnder(_, _)
NodesUnder(h, id) ==
    {id} \cup UNION { NodesUnder(h, h.node[id].children[i]) :
                          i \in 1..Len(h.node[id].children) }

\* A step of the operation `name` on an inode of two children or more whose
\* spine is uniquely owned and whose other nodes satisfy the fill bounds.
BalancesSide(name, left) ==
    /\ tPc = "run"
    /\ tOps' = tOps + 1
    /\ tLast'.op = name
    /\ len(heap.node[tRoot]) >= 2
    /\ ArcIsUnique(heap, tRoot)
    /\ \A id \in SpineBelow(heap, tRoot, left) : ArcIsUnique(heap, id)
    /\ \A id \in NodesUnder(heap, tRoot)
                     \ ({tRoot} \cup SpineBelow(heap, tRoot, left)) :
           FillOk(heap, id)

\* The call returned and no node of the spine below the inode is
\* underfilled.
SideBalanced(left) ==
    /\ tPc' = "run"
    /\ \A id \in SpineBelow(heap', tRoot', left) : ~NodeIsUnderfilled(heap', id)
    /\ Concat(Leaves(heap', tRoot')) = Concat(Leaves(heap, tRoot))

\* C29: after balance_left_side (balance_right_side) on an inode of two
\* children or more whose left (right) spine is uniquely owned and whose
\* nodes off that spine satisfy the fill bounds, the call has returned, no
\* debug assertion having failed on the way down, and no node on the spine
\* below the inode is underfilled, down to the leaf.
C29_BalanceSides ==
    [][/\ BalancesSide("balance_left_side", TRUE) => SideBalanced(TRUE)
       /\ BalancesSide("balance_right_side", FALSE) => SideBalanced(FALSE)]_vars

\* balance_left_side returned on an inode of depth 3 and changed it: the
\* spine was short of children and no node of it is underfilled now.
C29_Witness ==
    /\ tPc = "run"
    /\ tOps = 1
    /\ tLast.op = "balance_left_side"
    /\ tLast.changed
    /\ heap.node[tRoot].depth = 3
    /\ \A id \in SpineBelow(heap, tRoot, TRUE) : ~NodeIsUnderfilled(heap, id)

\* C26: the iterator of drain(start..end) yields the children of the range
\* in order, all of them by the time it returns None; once it is dropped,
\* after any number of items, the inode holds len - (end - start) children,
\* the old children outside the range in their order, and its summary and
\* leaf count are the sums over them.
C26_Drain ==
    /\ uPc \in {"drain", "none", "dropped"} =>
           uOut = SubSeq(uIter.children, uIter.start + 1,
                         uIter.start + uIter.yielded)
    /\ uPc = "none" =>
           uOut = SubSeq(uIter.children, uIter.start + 1, uIter.end)
    /\ uPc = "dropped" =>
           /\ len(uSelf) = Len(uIter.children) - (uIter.end - uIter.start)
           /\ uSelf.children = SubSeq(uIter.children, 1, uIter.start)
                                   \o SubSeq(uIter.children, uIter.end + 1,
                                             Len(uIter.children))
           /\ CachesOf(heap, uSelf)

\* The iterator of a range in the middle of the inode was dropped after
\* some of its items, not all, had been taken.
C26_Witness ==
    /\ uPc = "dropped"
    /\ uIter.start > 0
    /\ uIter.end < Len(uIter.children)
    /\ uIter.yielded > 0
    /\ uIter.yielded < uIter.end - uIter.start
    /\ Len(uOut) = uIter.yielded

====
